---- MODULE Spec2Model ----
(***************************************************************************)
(* Model of the generated test runners of the grading harness              *)
(* (api/src/generators): the per-language deep-equality comparators, the   *)
(* conversion of the expected value, and the batch loop that turns a list  *)
(* of test cases into a report.                                            *)
(*                                                                         *)
(* A runtime value is a record [k |-> kind, v |-> payload]; a float also   *)
(* carries its IEEE class c ("fin", "nan", "inf", "ninf") and, when        *)
(* finite, its value v in ticks of 1/Scale.  Containers hold sequences:    *)
(* a dict is a sequence of <<key, value>> pairs in insertion order, a set  *)
(* a sequence of its members in iteration order.                           *)
(***************************************************************************)
EXTENDS Integers, Sequences, FiniteSets, TLC

VARIABLES
    phase,      \* comparator harness: "input" | "compared"; "off" in the batch runs
    a,          \* comparator harness: the actual value handed to the comparator
    b,          \* comparator harness: the expected value handed to the comparator
    cmp,        \* comparator harness: which runner's comparator ran ("none" before)
    res,        \* comparator harness: its verdict
    lang,       \* batch run: the generated runner that is executing
    tests,      \* batch run: the ordered test cases
    idx,        \* batch run: 0-based index of the next test case
    results,    \* batch run: the records appended so far
    report,     \* batch run: the emitted report, record by record; <<>> until written
    run,        \* batch run: "loop" | "done" | "aborted"; "off" in the harness
    pc,         \* stepwise run: the statement the runner is at; "off" elsewhere
    trace,      \* stepwise run: the steps of the loop taken so far, in order
    stdout,     \* stepwise run: what the output stream of user code is bound to
    written     \* stepwise run: the stream the report went to; "none" before

vars == <<phase, a, b, cmp, res, lang, tests, idx, results, report, run,
          pc, trace, stdout, written>>
cmpVars == <<phase, a, b, cmp, res>>
runVars == <<lang, tests, idx, results, report, run>>
stepVars == <<pc, trace, stdout, written>>

---------------------------------------------------------------------------
(* Bounds of the value universe *)

MaxLen == 2
MaxInt == 2

(* One float tick is 1/Scale; the tolerance 0.0000001 is Scale/10^7 ticks. *)
Scale == 10^8

---------------------------------------------------------------------------
(* Runtime values *)

NullV == [k |-> "null"]
Undefined == [k |-> "undef"]
BoolV(x) == [k |-> "bool", v |-> x]
IntV(n) == [k |-> "int", v |-> n]
Fin(t) == [k |-> "float", c |-> "fin", v |-> t]
NaN == [k |-> "float", c |-> "nan", v |-> 0]
PosInf == [k |-> "float", c |-> "inf", v |-> 0]
NegInf == [k |-> "float", c |-> "ninf", v |-> 0]
StrV(s) == [k |-> "str", v |-> s]
ListV(xs) == [k |-> "list", v |-> xs]
TupleV(xs) == [k |-> "tuple", v |-> xs]
ArrayV(xs) == [k |-> "array", v |-> xs]
DictV(ps) == [k |-> "dict", v |-> ps]
SetV(xs) == [k |-> "set", v |-> xs]
FrozenSetV(xs) == [k |-> "frozenset", v |-> xs]
DequeV(xs) == [k |-> "deque", v |-> xs]
(* A Python object of a type the runner has no branch for, with the text
   str() gives for it *)
ObjectV(type, text) == [k |-> "object", type |-> type, v |-> text]
CounterV(ps) == [k |-> "counter", v |-> ps]
KeyValuePair(key, val) == [k |-> "kvp", v |-> <<key, val>>]

IsNaN(x) == x.k = "float" /\ x.c = "nan"
IsSeqKind(x) == x.k \in {"list", "tuple", "array", "set", "frozenset"}

SeqsUpTo(S, n) == UNION {[1..m -> S] : m \in 0..n}

---------------------------------------------------------------------------
(* IEEE-754 doubles, as far as the comparators use them *)

Abs(n) == IF n < 0 THEN -n ELSE n

(* The double a number converts to: doubleValue(), Convert.ToDouble, and
   Python's numeric tower (bool is 0/1). *)
ToDouble(x) ==
    IF x.k = "int" THEN Fin(x.v * Scale)
    ELSE IF x.k = "bool" THEN Fin(IF x.v THEN Scale ELSE 0)
    ELSE x

(* da == db on doubles: NaN equals nothing, an infinity equals itself. *)
DoubleEq(x, y) == x.c = y.c /\ x.c # "nan" /\ (x.c = "fin" => x.v = y.v)

(* fabs(da - db) < eps: the difference of two equal infinities is NaN, of
   anything else non-finite infinite or NaN; neither is below eps. *)
AbsDiffBelow(x, y, eps) == x.c = "fin" /\ y.c = "fin" /\ Abs(x.v - y.v) < eps

---------------------------------------------------------------------------
(* Python runner: deep_equals *)

PyIsNumber(x) == x.k \in {"bool", "int", "float"}

(* dict and its subclasses Counter, OrderedDict and defaultdict *)
PyDictKinds == {"dict", "counter", "ordereddict", "defaultdict"}

(* Python's own ==, which deep_equals falls back on.  The actual and the
   expected value are built separately, so no two members are the same
   object and a NaN member equals no member. *)
RECURSIVE PyEq(_, _)
PyEq(x, y) ==
    IF PyIsNumber(x) /\ PyIsNumber(y) THEN DoubleEq(ToDouble(x), ToDouble(y))
    ELSE IF x.k \in {"set", "frozenset"} /\ y.k \in {"set", "frozenset"}
    THEN /\ Len(x.v) = Len(y.v)
         /\ \A i \in DOMAIN x.v : \E j \in DOMAIN y.v : PyEq(x.v[i], y.v[j])
    ELSE IF x.k = "ordereddict" /\ y.k = "ordereddict"
    THEN \* two OrderedDicts compare in order
         /\ Len(x.v) = Len(y.v)
         /\ \A i \in DOMAIN x.v :
                PyEq(x.v[i][1], y.v[i][1]) /\ PyEq(x.v[i][2], y.v[i][2])
    ELSE IF x.k \in PyDictKinds /\ y.k \in PyDictKinds
    THEN \* the counts of the universe's Counters are never zero
         /\ Len(x.v) = Len(y.v)
         /\ \A i \in DOMAIN x.v : \E j \in DOMAIN y.v :
                PyEq(x.v[i][1], y.v[j][1]) /\ PyEq(x.v[i][2], y.v[j][2])
    ELSE IF x.k # y.k THEN FALSE
    ELSE IF x.k = "null" THEN TRUE
    ELSE IF x.k = "str" THEN x.v = y.v
    ELSE IF x.k \in {"list", "tuple", "deque"}
    THEN /\ Len(x.v) = Len(y.v)
         /\ \A i \in DOMAIN x.v : PyEq(x.v[i], y.v[i])
    ELSE FALSE

(* set(a.keys()) != set(b.keys()), negated *)
PyKeysEq(p, q) ==
    /\ \A i \in DOMAIN p : \E j \in DOMAIN q : PyEq(p[i][1], q[j][1])
    /\ \A j \in DOMAIN q : \E i \in DOMAIN p : PyEq(p[i][1], q[j][1])

(* b[k] *)
PyGet(q, key) == q[CHOOSE j \in DOMAIN q : PyEq(q[j][1], key)][2]

(* the same with one NaN enough *)
PyBothNaNEither(x, y) == x.k = "float" /\ y.k = "float" /\ (IsNaN(x) \/ IsNaN(y))
(* isinstance(a, float) and isinstance(b, float) and both isnan *)
PyBothNaN(x, y) == x.k = "float" /\ y.k = "float" /\ IsNaN(x) /\ IsNaN(y)

RECURSIVE deep_equals(_, _)
deep_equals(x, y) ==
    IF x.k = "null" /\ y.k = "null" THEN TRUE
    ELSE IF x.k = "null" \/ y.k = "null" THEN FALSE
    ELSE IF PyBothNaN(x, y) THEN TRUE
    ELSE IF x.k # y.k THEN FALSE
    ELSE IF x.k = "list"
    THEN /\ Len(x.v) = Len(y.v)
         /\ \A i \in DOMAIN x.v : deep_equals(x.v[i], y.v[i])
    ELSE IF x.k = "tuple"
    THEN /\ Len(x.v) = Len(y.v)
         /\ \A i \in DOMAIN x.v : deep_equals(x.v[i], y.v[i])
    ELSE IF x.k \in PyDictKinds   \* isinstance(a, dict)
    THEN /\ PyKeysEq(x.v, y.v)
         /\ \A i \in DOMAIN x.v : deep_equals(x.v[i][2], PyGet(y.v, x.v[i][1]))
    ELSE IF x.k = "set" THEN PyEq(x, y)
    ELSE IF x.k = "frozenset" THEN PyEq(x, y)
    ELSE PyEq(x, y)

---------------------------------------------------------------------------
(* Decimal text of numbers: String.valueOf, ToString() *)

(* The fraction f < 10^n as n digits with the trailing zeros dropped. *)
RECURSIVE FracText(_, _)
FracText(f, n) ==
    IF f = 0 \/ n = 0 THEN ""
    ELSE ToString(f \div 10^(n - 1)) \o FracText(f % 10^(n - 1), n - 1)

(* A non-negative finite double of the universe, shortest form; an integral
   value prints its fraction as whole ("" in C#, ".0" in Java and Python). *)
DecimalText(t, whole) ==
    IF t % Scale = 0 THEN ToString(t \div Scale) \o whole
    ELSE ToString(t \div Scale) \o "." \o FracText(t % Scale, 8)

DoubleText(x, whole, nan, inf) ==
    IF x.c = "nan" THEN nan
    ELSE IF x.c = "inf" THEN inf
    ELSE IF x.c = "ninf" THEN "-" \o inf
    ELSE DecimalText(x.v, whole)

---------------------------------------------------------------------------
(* Java runner: deepEquals *)

JavaIsNumber(x) == x.k \in {"int", "float"}

(* Object.equals where deepEquals and the maps use it: on map keys, and as
   the last resort between two objects that are not both numbers, lists,
   arrays or maps.  Boxed values and strings compare by class and value;
   any other pair there is of two classes or two distinct objects. *)
JavaEquals(x, y) ==
    x.k = y.k /\ x.k \in {"bool", "int", "float", "str"} /\ x = y

(* String.valueOf(key) *)
JavaStringValueOf(x) ==
    IF x.k = "str" THEN x.v
    ELSE IF x.k = "int" THEN ToString(x.v)
    ELSE IF x.k = "bool" THEN (IF x.v THEN "true" ELSE "false")
    ELSE IF x.k = "float" THEN DoubleText(x, ".0", "NaN", "Infinity")
    ELSE "null"

JavaContainsKey(m, key) == \E j \in DOMAIN m : JavaEquals(m[j][1], key)

(* mb.get(key): null when the key is absent *)
JavaMapGet(m, key) ==
    IF JavaContainsKey(m, key)
    THEN m[CHOOSE j \in DOMAIN m : JavaEquals(m[j][1], key)][2]
    ELSE NullV

(* Object vb = mb.containsKey(key) ? mb.get(key) : mb.get(keyStr) *)
JavaLookup(m, key) ==
    IF JavaContainsKey(m, key) THEN JavaMapGet(m, key)
    ELSE JavaMapGet(m, StrV(JavaStringValueOf(key)))

(* if (Double.isNaN(da) && Double.isNaN(db)) return true; return da == db; *)
JavaNumberEq(x, y) ==
    \/ IsNaN(ToDouble(x)) /\ IsNaN(ToDouble(y))
    \/ DoubleEq(ToDouble(x), ToDouble(y))

RECURSIVE deepEquals(_, _)
deepEquals(x, y) ==
    IF x.k = "null" /\ y.k = "null" THEN TRUE
    ELSE IF x.k = "null" \/ y.k = "null" THEN FALSE
    ELSE IF JavaIsNumber(x) /\ JavaIsNumber(y) THEN JavaNumberEq(x, y)
    ELSE IF x.k = "list" /\ y.k = "list"
    THEN /\ Len(x.v) = Len(y.v)
         /\ \A i \in DOMAIN x.v : deepEquals(x.v[i], y.v[i])
    ELSE IF x.k = "array" /\ y.k \in {"list", "array"}
    THEN /\ Len(x.v) = Len(y.v)
         /\ \A i \in DOMAIN x.v : deepEquals(x.v[i], y.v[i])
    ELSE IF x.k = "dict" /\ y.k = "dict"
    THEN /\ Len(x.v) = Len(y.v)
         /\ \A i \in DOMAIN x.v :
              LET key == x.v[i][1]
                  keyStr == StrV(JavaStringValueOf(key))
                  va == x.v[i][2]
                  vb == JavaLookup(y.v, key)
              IN  /\ ~(/\ vb.k = "null"
                       /\ ~JavaContainsKey(y.v, key)
                       /\ ~JavaContainsKey(y.v, keyStr))
                  /\ deepEquals(va, vb)
    ELSE JavaEquals(x, y)

---------------------------------------------------------------------------
(* C# runner: DeepEquals *)

(* IsNumeric: the boxed integer and floating types *)
IsNumeric(x) == x.k \in {"int", "float"}

(* a is IEnumerable && !(a is string): lists, arrays and, since IDictionary
   extends IEnumerable, dictionaries *)
CsIsEnumerable(x) == x.k \in {"list", "array", "dict"}

(* ((IEnumerable)a).Cast<object>().ToList(): a dictionary enumerates its
   entries as KeyValuePair structs *)
CsToList(x) ==
    IF x.k = "dict"
    THEN [i \in DOMAIN x.v |-> KeyValuePair(x.v[i][1], x.v[i][2])]
    ELSE x.v

RECURSIVE CsJoin(_, _)
RECURSIVE CsToString(_)
(* The members' ToString() joined by ", " *)
CsJoin(xs, i) ==
    IF i > Len(xs) THEN ""
    ELSE (IF i > 1 THEN ", " ELSE "") \o CsToString(xs[i]) \o CsJoin(xs, i + 1)

(* a.ToString(); a collection prints its type name (generic arity and
   arguments left out) *)
CsToString(x) ==
    IF x.k = "str" THEN x.v
    ELSE IF x.k = "int" THEN ToString(x.v)
    ELSE IF x.k = "float" THEN DoubleText(x, "", "NaN", "Infinity")
    ELSE IF x.k = "bool" THEN (IF x.v THEN "True" ELSE "False")
    ELSE IF x.k = "tuple" THEN "(" \o CsJoin(x.v, 1) \o ")"
    ELSE IF x.k = "kvp" THEN "[" \o CsJoin(x.v, 1) \o "]"
    ELSE IF x.k = "list" THEN "System.Collections.Generic.List"
    ELSE IF x.k = "array" THEN "System.Object[]"
    ELSE IF x.k = "dict"
    THEN "System.Collections.Generic.Dictionary"
    ELSE ""

(* a.Equals(b) between two objects that are not both numeric, enumerable
   or dictionaries: boxed values and strings compare by type and value, a
   KeyValuePair field by field (the static types of the two dictionaries
   taken to be the same), any other pair is of two types or two distinct
   objects. *)
RECURSIVE NetEquals(_, _)
NetEquals(x, y) ==
    IF x.k # y.k THEN FALSE
    ELSE IF x.k = "null" THEN TRUE
    ELSE IF x.k \in {"bool", "int", "float", "str"} THEN x = y
    ELSE IF x.k = "kvp"
    THEN NetEquals(x.v[1], y.v[1]) /\ NetEquals(x.v[2], y.v[2])
    ELSE FALSE

CsContains(m, key) == \E j \in DOMAIN m : NetEquals(m[j][1], key)
CsItem(m, key) == m[CHOOSE j \in DOMAIN m : NetEquals(m[j][1], key)][2]

(* Math.Abs(da - db) < 0.0000001 *)
CsEpsilon == Scale \div 10^7

(* if (double.IsNaN(da) && double.IsNaN(db)) return true;
   return Math.Abs(da - db) < 0.0000001; *)
CsNumericEq(x, y) ==
    \/ IsNaN(ToDouble(x)) /\ IsNaN(ToDouble(y))
    \/ AbsDiffBelow(ToDouble(x), ToDouble(y), CsEpsilon)

RECURSIVE DeepEquals(_, _)
DeepEquals(x, y) ==
    IF x.k = "null" /\ y.k = "null" THEN TRUE
    ELSE IF x.k = "null" \/ y.k = "null" THEN FALSE
    ELSE IF IsNumeric(x) /\ IsNumeric(y) THEN CsNumericEq(x, y)
    ELSE IF x.k = "tuple" THEN DeepEquals(ListV(x.v), y)
    ELSE IF CsIsEnumerable(x) /\ CsIsEnumerable(y)
    THEN LET listA == CsToList(x)
             listB == CsToList(y)
         IN  /\ Len(listA) = Len(listB)
             /\ \A i \in DOMAIN listA : DeepEquals(listA[i], listB[i])
    ELSE IF x.k = "dict" /\ y.k = "dict"
    THEN /\ Len(x.v) = Len(y.v)
         /\ \A i \in DOMAIN x.v :
              LET key == x.v[i][1]
                  keyStr == StrV(CsToString(key))
              IN  IF CsContains(y.v, key)
                  THEN DeepEquals(x.v[i][2], CsItem(y.v, key))
                  ELSE IF CsContains(y.v, keyStr)
                  THEN DeepEquals(x.v[i][2], CsItem(y.v, keyStr))
                  ELSE FALSE
    ELSE IF x.k = "str" \/ y.k = "str" THEN CsToString(x) = CsToString(y)
    ELSE NetEquals(x, y)

---------------------------------------------------------------------------
(* TypeScript runner: __deepEquals__ *)

(* a === b: primitives by type and value, NaN equal to nothing; two
   separately built arrays or objects are never the same reference *)
TsStrictEq(x, y) ==
    /\ x.k = y.k
    /\ IF x.k \in {"null", "undef"} THEN TRUE
       ELSE IF x.k \in {"bool", "str"} THEN x.v = y.v
       ELSE IF x.k = "float" THEN DoubleEq(x, y)
       ELSE FALSE

TsTypeof(x) ==
    IF x.k = "undef" THEN "undefined"
    ELSE IF x.k = "bool" THEN "boolean"
    ELSE IF x.k = "float" THEN "number"
    ELSE IF x.k = "str" THEN "string"
    ELSE "object"

(* Object.keys(a): the indices of an array, the own keys of an object *)
TsKeys(x) ==
    IF x.k = "list" THEN {ToString(i - 1) : i \in DOMAIN x.v}
    ELSE IF x.k = "dict" THEN {x.v[i][1].v : i \in DOMAIN x.v}
    ELSE {}

(* a[k] for an own key k *)
TsGet(x, key) ==
    IF x.k = "list" THEN x.v[CHOOSE i \in DOMAIN x.v : ToString(i - 1) = key]
    ELSE x.v[CHOOSE i \in DOMAIN x.v : x.v[i][1].v = key][2]

RECURSIVE __deepEquals__(_, _)
__deepEquals__(x, y) ==
    IF TsStrictEq(x, y) THEN TRUE
    ELSE IF x.k = "null" \/ y.k = "null" THEN TsStrictEq(x, y)
    ELSE IF x.k = "undef" \/ y.k = "undef" THEN TsStrictEq(x, y)
    ELSE IF TsTypeof(x) = "number" /\ TsTypeof(y) = "number" /\ IsNaN(x) /\ IsNaN(y)
    THEN TRUE
    ELSE IF TsTypeof(x) # TsTypeof(y) THEN FALSE
    ELSE IF x.k = "list" /\ y.k = "list"
    THEN /\ Len(x.v) = Len(y.v)
         /\ \A i \in DOMAIN x.v : __deepEquals__(x.v[i], y.v[i])
    ELSE IF TsTypeof(x) = "object"
    THEN \* the two sorted key lists are equal iff the key sets are
         /\ Cardinality(TsKeys(x)) = Cardinality(TsKeys(y))
         /\ TsKeys(x) = TsKeys(y)
         /\ \A key \in TsKeys(x) : __deepEquals__(TsGet(x, key), TsGet(y, key))
    ELSE FALSE

---------------------------------------------------------------------------
(* C generator: the comparison emitted for a numeric expected value *)

(* fabs(actual - expected) < 0.0000001 *)
CEpsilon == Scale \div 10^7

(* Number.isInteger(expected) of a JSON number *)
NumberIsInteger(e) == ToDouble(e).c = "fin" /\ ToDouble(e).v % Scale = 0

(* int actual = <call>: a double is truncated; the conversion of a NaN or an
   infinity is undefined *)
CIntDefined(x) == ToDouble(x).c = "fin"
CToInt(x) == ToDouble(x).v \div Scale

(* The verdicts the emitted block can give for actual x, expected number e *)
CNumberPassed(x, e) ==
    IF NumberIsInteger(e)
    THEN IF CIntDefined(x) THEN {CToInt(x) = CToInt(e)} ELSE BOOLEAN
    ELSE {AbsDiffBelow(ToDouble(x), ToDouble(e), CEpsilon)}

---------------------------------------------------------------------------
(* The bounded universe of values each runtime can hand to its comparator *)

Bools == {BoolV(TRUE), BoolV(FALSE)}
Ints == {IntV(n) : n \in 1..MaxInt}
(* 1.0, its neighbour one tick above, and the three non-finite doubles *)
Floats == {Fin(Scale), Fin(Scale + 1), NaN, PosInf, NegInf}
Strs == {StrV("a"), StrV("1")}

Elems == {IntV(1), Fin(Scale), NaN}
DictKeys == {StrV("a"), StrV("1"), IntV(1)}
DictVals == {IntV(1), Fin(Scale)}

SeqsOf(E) == SeqsUpTo(E, MaxLen)
(* The members of a Python set: no two equal under Python's == *)
SetSeqsOf(E) ==
    {s \in SeqsOf(E) : \A i, j \in DOMAIN s : i # j => ~PyEq(s[i], s[j])}
(* The entries of a map: no key twice *)
DictSeqsOf(K, V) ==
    {p \in SeqsUpTo(K \X V, MaxLen) : \A i, j \in DOMAIN p : i # j => p[i][1] # p[j][1]}

Wrap(S) == {ListV(<<c>>) : c \in S} \cup {DictV(<< <<StrV("a"), c>> >>) : c \in S}

InnerFloat ==
    {ListV(<<>>), ListV(<<Fin(Scale)>>), ListV(<<NaN>>), DictV(<<>>),
     DictV(<< <<StrV("a"), Fin(Scale)>> >>)}
InnerInt == {ListV(<<IntV(1)>>), DictV(<< <<StrV("a"), IntV(1)>> >>)}
InnerTuple == {TupleV(<<IntV(1)>>), TupleV(<<Fin(Scale)>>), TupleV(<<NaN>>)}

Atoms == {NullV} \cup Bools \cup Ints \cup Floats \cup Strs

PyVals ==
    Atoms
    \cup {ListV(s) : s \in SeqsOf(Elems)}
    \cup {TupleV(s) : s \in SeqsOf(Elems)}
    \cup {SetV(s) : s \in SetSeqsOf(Elems \cup InnerTuple)}
    \cup {DictV(p) : p \in DictSeqsOf(DictKeys, DictVals)}
    \cup Wrap(InnerFloat \cup InnerInt \cup InnerTuple)
    \cup {TupleV(<<c>>) : c \in InnerFloat \cup InnerInt}
    \cup {FrozenSetV(s) : s \in SetSeqsOf(Elems)}
    \cup {DequeV(s) : s \in SeqsOf(Elems)}
    \cup {CounterV(p) : p \in DictSeqsOf({StrV("a"), StrV("1")}, DictVals)}

JavaVals ==
    Atoms
    \cup {ListV(s) : s \in SeqsOf(Elems)}
    \cup {ArrayV(s) : s \in SeqsOf(Elems)}
    \cup {DictV(p) : p \in DictSeqsOf(DictKeys, DictVals)}
    \cup Wrap(InnerFloat \cup InnerInt)

CsVals ==
    Atoms
    \cup {ListV(s) : s \in SeqsOf(Elems)}
    \cup {ArrayV(s) : s \in SeqsOf(Elems)}
    \cup {TupleV(s) : s \in SeqsOf(Elems) \ {<<>>}}
    \cup {DictV(p) : p \in DictSeqsOf(DictKeys, DictVals)}
    \cup Wrap(InnerFloat \cup InnerInt \cup InnerTuple)

(* JavaScript has one number type and string keys only *)
TsVals ==
    {NullV, Undefined} \cup Bools \cup Floats \cup Strs
    \cup {ListV(s) : s \in SeqsOf(Elems \ Ints)}
    \cup {DictV(p) : p \in DictSeqsOf({StrV("a"), StrV("0")}, {Fin(Scale), NaN})}
    \cup Wrap(InnerFloat)

(* A C function under a numeric expected value returns an int or a double;
   the expected number arrives through JSON, so it is finite *)
CActuals == Ints \cup Floats
CExpecteds == Ints \cup {Fin(Scale), Fin(Scale + 1)}

AllVals == PyVals \cup JavaVals \cup CsVals \cup TsVals

---------------------------------------------------------------------------
(* Comparator harness: one pair of values, one comparator applied to it *)

RunOff ==
    /\ lang = "none" /\ tests = <<>> /\ idx = 0
    /\ results = <<>> /\ report = <<>> /\ run = "off"

StepsOff == pc = "off" /\ trace = <<>> /\ stdout = "off" /\ written = "none"

InitCmp ==
    /\ a \in AllVals
    /\ b \in AllVals
    /\ phase = "input"
    /\ cmp = "none"
    /\ res = FALSE
    /\ RunOff
    /\ StepsOff

Compared(runner, verdict) ==
    /\ phase = "input"
    /\ phase' = "compared"
    /\ cmp' = runner
    /\ res' = verdict
    /\ UNCHANGED <<a, b>>
    /\ UNCHANGED runVars
    /\ UNCHANGED stepVars

PyCompare == a \in PyVals /\ b \in PyVals /\ Compared("python", deep_equals(a, b))
JavaCompare == a \in JavaVals /\ b \in JavaVals /\ Compared("java", deepEquals(a, b))
CsCompare == a \in CsVals /\ b \in CsVals /\ Compared("csharp", DeepEquals(a, b))
TsCompare == a \in TsVals /\ b \in TsVals /\ Compared("typescript", __deepEquals__(a, b))
CCompare ==
    /\ a \in CActuals /\ b \in CExpecteds
    /\ \E verdict \in CNumberPassed(a, b) : Compared("c", verdict)

NextCmp == PyCompare \/ JavaCompare \/ CsCompare \/ TsCompare \/ CCompare

SpecCmp == InitCmp /\ [][NextCmp]_vars

---------------------------------------------------------------------------
(* Python runner: serialize and convert_expected.  A value of a type that
   serialize has no branch for is an object with its type name and its
   str() text. *)

(* {"__type__": t, "value": v} *)
Marker(t, val) == DictV(<< <<StrV("__type__"), StrV(t)>>, <<StrV("value"), val>> >>)

(* str(k) of a dict key *)
PyStr(x) ==
    IF x.k = "str" THEN x.v
    ELSE IF x.k = "int" THEN ToString(x.v)
    ELSE IF x.k = "float" THEN DoubleText(x, ".0", "nan", "inf")
    ELSE IF x.k = "bool" THEN (IF x.v THEN "True" ELSE "False")
    ELSE "None"

(* A dict built by inserting the pairs in order: a key met again keeps its
   place and takes the new value *)
RECURSIVE PyDictOf(_)
PyDictOf(ps) ==
    IF ps = <<>> THEN <<>>
    ELSE LET front == PyDictOf(SubSeq(ps, 1, Len(ps) - 1))
             last == ps[Len(ps)]
         IN  IF \E i \in DOMAIN front : PyEq(front[i][1], last[1])
             THEN [i \in DOMAIN front |->
                      IF PyEq(front[i][1], last[1]) THEN <<front[i][1], last[2]>>
                      ELSE front[i]]
             ELSE Append(front, last)

(* The str that a sequence of one-character strings spells *)
RECURSIVE Join(_)
Join(cs) == IF cs = <<>> THEN "" ELSE Head(cs) \o Join(Tail(cs))

(* sorted(xs, key=lambda x: str(x)) of serialized values: a stable sort by
   the code points of str(x).  The strs among them are the strings of the
   universe; repr writes a finite float with its shortest digits, which for
   the floats of the universe is the decimal expansion. *)
sorted(xs) ==
    LET Ascii ==
            <<" ", "'", ",", "-", ".", "0", "1", "2", "3", "4", "5", "6", "7",
              "8", "9", ":", "A", "B", "C", "D", "E", "F", "G", "H", "I", "J",
              "K", "L", "M", "N", "O", "P", "Q", "R", "S", "T", "U", "V", "W",
              "X", "Y", "Z", "[", "]", "_", "a", "b", "c", "d", "e", "f", "g",
              "h", "i", "j", "k", "l", "m", "n", "o", "p", "q", "r", "s", "t",
              "u", "v", "w", "x", "y", "z", "{", "}">>
        Code(c) == CHOOSE i \in DOMAIN Ascii : Ascii[i] = c
        Words ==
            {<<"a">>,
             <<"1">>,
             <<"0">>,
             <<"T", "r", "u", "e">>,
             <<"N", "o", "n", "e">>,
             <<"N", "a", "N">>,
             <<"I", "n", "f", "i", "n", "i", "t", "y">>,
             <<"-", "I", "n", "f", "i", "n", "i", "t", "y">>,
             <<"_", "_", "t", "y", "p", "e", "_", "_">>,
             <<"v", "a", "l", "u", "e">>,
             <<"i", "n", "t">>,
             <<"f", "l", "o", "a", "t">>,
             <<"t", "u", "p", "l", "e">>,
             <<"d", "i", "c", "t">>,
             <<"s", "e", "t">>,
             <<"f", "r", "o", "z", "e", "n", "s", "e", "t">>,
             <<"d", "e", "q", "u", "e">>,
             <<"C", "o", "u", "n", "t", "e", "r">>,
             <<"O", "r", "d", "e", "r", "e", "d", "D", "i", "c", "t">>,
             <<"d", "e", "f", "a", "u", "l", "t", "d", "i", "c", "t">>}
        CharsOf(str) == CHOOSE cs \in Words : Join(cs) = str
        RECURSIVE nat(_), fraction(_, _), repr(_), items(_, _)
        nat(n) == IF n < 10 THEN <<ToString(n)>> ELSE nat(n \div 10) \o <<ToString(n % 10)>>
        fraction(f, width) ==
            IF f = 0 THEN <<>>
            ELSE <<ToString(f \div 10^(width - 1))>> \o fraction(f % 10^(width - 1), width - 1)
        repr(x) ==
            IF x.k = "null" THEN <<"N", "o", "n", "e">>
            ELSE IF x.k = "bool"
            THEN (IF x.v THEN <<"T", "r", "u", "e">> ELSE <<"F", "a", "l", "s", "e">>)
            ELSE IF x.k = "int" THEN (IF x.v < 0 THEN <<"-">> ELSE <<>>) \o nat(Abs(x.v))
            ELSE IF x.k = "float"
            THEN (IF x.v < 0 THEN <<"-">> ELSE <<>>) \o nat(Abs(x.v) \div Scale) \o <<".">>
                 \o (IF Abs(x.v) % Scale = 0 THEN <<"0">> ELSE fraction(Abs(x.v) % Scale, 8))
            ELSE IF x.k = "str" THEN <<"'">> \o CharsOf(x.v) \o <<"'">>
            ELSE IF x.k = "list" THEN <<"[">> \o items(x, 1) \o <<"]">>
            ELSE <<"{">> \o items(x, 1) \o <<"}">>
        items(x, i) ==
            IF i > Len(x.v) THEN <<>>
            ELSE (IF i > 1 THEN <<",", " ">> ELSE <<>>)
                 \o (IF x.k = "list" THEN repr(x.v[i])
                     ELSE repr(x.v[i][1]) \o <<":", " ">> \o repr(x.v[i][2]))
                 \o items(x, i + 1)
        key(x) == IF x.k = "str" THEN CharsOf(x.v) ELSE repr(x)
        Less(s, t) ==
            \E i \in 1..Len(t) :
                /\ \A j \in 1..(i - 1) : j <= Len(s) /\ s[j] = t[j]
                /\ \/ i = Len(s) + 1
                   \/ i <= Len(s) /\ Code(s[i]) < Code(t[i])
        RECURSIVE insert(_, _), sort(_)
        (* x goes behind every member whose key is not greater than its own *)
        insert(x, acc) ==
            IF acc # <<>> /\ Less(key(x), key(acc[Len(acc)]))
            THEN Append(insert(x, SubSeq(acc, 1, Len(acc) - 1)), acc[Len(acc)])
            ELSE Append(acc, x)
        sort(s) ==
            IF s = <<>> THEN <<>>
            ELSE insert(s[Len(s)], sort(SubSeq(s, 1, Len(s) - 1)))
    IN  sort(xs)

(* The order of a set's members is the order in which the set is iterated *)
RECURSIVE serialize(_)
serialize(value) ==
    IF value.k = "null" THEN NullV
    ELSE IF value.k = "bool" THEN value
    ELSE IF value.k \in {"counter", "ordereddict", "defaultdict"}
    THEN Marker(CASE value.k = "counter" -> "Counter"
                  [] value.k = "ordereddict" -> "OrderedDict"
                  [] value.k = "defaultdict" -> "defaultdict",
                DictV(PyDictOf(
                    [i \in DOMAIN value.v |->
                        <<StrV(PyStr(value.v[i][1])), serialize(value.v[i][2])>>])))
    ELSE IF value.k = "int" THEN Marker("int", value)
    ELSE IF value.k = "float"
    THEN IF value.c = "nan" THEN Marker("float", StrV("NaN"))
         ELSE IF value.c = "inf" THEN Marker("float", StrV("Infinity"))
         ELSE IF value.c = "ninf" THEN Marker("float", StrV("-Infinity"))
         ELSE Marker("float", value)
    ELSE IF value.k = "str" THEN value
    ELSE IF value.k = "tuple"
    THEN Marker("tuple", ListV([i \in DOMAIN value.v |-> serialize(value.v[i])]))
    ELSE IF value.k = "list"
    THEN ListV([i \in DOMAIN value.v |-> serialize(value.v[i])])
    ELSE IF value.k = "dict"
    THEN Marker("dict", DictV(PyDictOf(
             [i \in DOMAIN value.v |->
                 <<StrV(PyStr(value.v[i][1])), serialize(value.v[i][2])>>])))
    ELSE IF value.k \in {"set", "frozenset"}
    THEN Marker(value.k, ListV(sorted([i \in DOMAIN value.v |-> serialize(value.v[i])])))
    ELSE IF value.k = "deque"
    THEN Marker("deque", ListV([i \in DOMAIN value.v |-> serialize(value.v[i])]))
    ELSE \* any other type: its name and str(value)
         Marker(value.type, StrV(value.v))

(* set(xs): a member equal to an earlier one is dropped *)
RECURSIVE PySetOf(_)
PySetOf(xs) ==
    IF xs = <<>> THEN <<>>
    ELSE LET front == PySetOf(SubSeq(xs, 1, Len(xs) - 1))
             last == xs[Len(xs)]
         IN  IF \E i \in DOMAIN front : PyEq(front[i], last) THEN front
             ELSE Append(front, last)

PyHasKey(d, key) == \E i \in DOMAIN d.v : d.v[i][1] = StrV(key)
PyItem(d, key) == d.v[CHOOSE i \in DOMAIN d.v : d.v[i][1] = StrV(key)][2]

(* int(v) and float(v) of a JSON number *)
PyInt(x) == IF x.k = "int" THEN x ELSE IntV(x.v \div Scale)
PyFloat(x) == IF x.k = "float" THEN x ELSE Fin(x.v * Scale)

RECURSIVE convert_expected(_)
convert_expected(val) ==
    IF val.k = "null" THEN NullV
    ELSE IF val.k = "bool" THEN val
    ELSE IF val.k = "dict"
    THEN LET plain ==
                 DictV([i \in DOMAIN val.v |->
                           <<val.v[i][1], convert_expected(val.v[i][2])>>])
         IN  IF PyHasKey(val, "__type__") /\ PyHasKey(val, "value")
             THEN LET t == PyItem(val, "__type__")
                      inner == PyItem(val, "value")
                  IN  IF t = StrV("tuple")
                      THEN TupleV([i \in DOMAIN inner.v |-> convert_expected(inner.v[i])])
                      ELSE IF t = StrV("set")
                      THEN SetV(PySetOf([i \in DOMAIN inner.v |-> convert_expected(inner.v[i])]))
                      ELSE IF t = StrV("frozenset")
                      THEN FrozenSetV(PySetOf([i \in DOMAIN inner.v |-> convert_expected(inner.v[i])]))
                      ELSE IF t = StrV("int") THEN PyInt(inner)
                      ELSE IF t = StrV("float")
                      THEN IF inner = StrV("NaN") THEN NaN
                           ELSE IF inner = StrV("Infinity") THEN PosInf
                           ELSE IF inner = StrV("-Infinity") THEN NegInf
                           ELSE PyFloat(inner)
                      ELSE IF t = StrV("dict")
                      THEN DictV([i \in DOMAIN inner.v |->
                                     <<inner.v[i][1], convert_expected(inner.v[i][2])>>])
                      ELSE IF t = StrV("deque")
                      THEN DequeV([i \in DOMAIN inner.v |-> convert_expected(inner.v[i])])
                      ELSE IF t \in {StrV("Counter"), StrV("OrderedDict"), StrV("defaultdict")}
                      THEN [k |-> CASE t = StrV("Counter") -> "counter"
                                    [] t = StrV("OrderedDict") -> "ordereddict"
                                    [] t = StrV("defaultdict") -> "defaultdict",
                            v |-> [i \in DOMAIN inner.v |->
                                      <<inner.v[i][1], convert_expected(inner.v[i][2])>>]]
                      ELSE IF t = StrV("undefined") THEN NullV
                      ELSE plain
             ELSE plain
    ELSE IF val.k = "list"
    THEN ListV([i \in DOMAIN val.v |-> convert_expected(val.v[i])])
    ELSE val

---------------------------------------------------------------------------
(* Expectation texts.  A text is a sequence of one-character strings.  The
   texts of the universe are made of spaces, ASCII digits, letters and
   punctuation; a backslash in them stands before a quote, a backslash or
   punctuation, and no number has an exponent. *)

TextV(cs) == [k |-> "text", v |-> cs]

(* str.strip() / String.prototype.trim() *)
RECURSIVE Strip(_)
Strip(cs) ==
    IF cs = <<>> THEN cs
    ELSE IF Head(cs) = " " THEN Strip(Tail(cs))
    ELSE IF cs[Len(cs)] = " " THEN Strip(SubSeq(cs, 1, Len(cs) - 1))
    ELSE cs

DigitChars == {ToString(d) : d \in 0..9}

(* The number the digits cs[i..j-1] spell *)
RECURSIVE NatOf(_, _, _)
NatOf(cs, i, j) ==
    IF j <= i THEN 0
    ELSE NatOf(cs, i, j - 1) * 10 + (CHOOSE d \in 0..9 : ToString(d) = cs[j - 1])

(* hash(v): the type that makes v unhashable, "" when v hashes.  Lists,
   dicts and sets are unhashable; a tuple hashes its members in order. *)
RECURSIVE PyUnhashable(_)
PyUnhashable(x) ==
    IF x.k \in {"list", "dict", "set"} THEN x.k
    ELSE IF x.k = "tuple" /\ \E i \in DOMAIN x.v : PyUnhashable(x.v[i]) # ""
    THEN PyUnhashable(x.v[CHOOSE i \in DOMAIN x.v :
                              /\ PyUnhashable(x.v[i]) # ""
                              /\ \A j \in 1..(i - 1) : PyUnhashable(x.v[j]) = ""])
    ELSE ""

(* The three readers of a literal text, by grammar g:
     "js"  JSON.parse: strict JSON, every number a double;
     "py"  json.loads: strict JSON and the constants NaN, Infinity,
           -Infinity, a number an int unless it has a fraction;
     "lit" ast.literal_eval: Python display syntax.
   The text is read into a syntax tree first; the tree is then built into a
   value in evaluation order, where literal_eval raises ValueError on a
   malformed node and TypeError on an unhashable set member or dict key.
   The result is [ok |-> TRUE, val |-> v] or
   [ok |-> FALSE, err |-> kind, msg |-> text]. *)
Literal(cs, g) ==
    LET n == Len(cs)
        lit == g = "lit"
        At(i) == IF i \in 1..n THEN cs[i] ELSE ""
        Word(i, w) == i + Len(w) - 1 <= n /\ SubSeq(cs, i, i + Len(w) - 1) = w
        Bad == [ok |-> FALSE]
        Got(node, nxt) == [ok |-> TRUE, node |-> node, nxt |-> nxt]
        Malformed == [k |-> "bad"]
        Neg(x) == IF x.k = "int" THEN IntV(-x.v) ELSE Fin(-x.v)
        RECURSIVE skip(_), digits(_), chars(_, _, _, _), strings(_, _), tokens(_, _),
                  parse(_, _, _), build(_), members(_, _, _), entries(_, _)
        skip(i) == IF At(i) = " " THEN skip(i + 1) ELSE i
        digits(i) == IF At(i) \in DigitChars THEN digits(i + 1) ELSE i
        (* a number token at i: the digits up to e1, then maybe a point
           and the digits up to e2 *)
        Number(i, e1, dot, e2) ==
            LET whole == NatOf(cs, i, e1)
                frac == e2 - e1 - 1
                lead == e1 > i + 1 /\ At(i) = "0"
                fine == IF lit
                        THEN /\ e1 > i \/ (dot /\ frac > 0)
                             /\ dot \/ ~lead \/ whole = 0
                        ELSE e1 > i /\ ~lead /\ (dot => frac > 0)
            IN  IF ~fine \/ (dot /\ frac > 8) THEN Bad
                ELSE IF dot
                THEN Got(Fin(whole * Scale + NatOf(cs, e1 + 1, e2) * 10^(8 - frac)), e2)
                ELSE Got(IF g = "js" THEN Fin(whole * Scale) ELSE IntV(whole), e2)
        Pointed(i, e1) ==
            IF At(e1) = "." THEN Number(i, e1, TRUE, digits(e1 + 1))
            ELSE Number(i, e1, FALSE, e1)
        number(i) == Pointed(i, digits(i))
        (* the rest of a string literal opened by quote q, or by three of
           them when long, acc read so far.  A line break ends a short
           literal, and JSON takes no control character in a string; of
           the escapes with a letter the texts of the universe have \n,
           \r and \t only *)
        chars(i, q, long, acc) ==
            IF At(i) = "" THEN Bad
            ELSE IF long /\ Word(i, <<q, q, q>>) THEN Got(StrV(acc), i + 3)
            ELSE IF ~long /\ At(i) = q THEN Got(StrV(acc), i + 1)
            ELSE IF ~long /\ At(i) \in {"\n", "\r"} THEN Bad
            ELSE IF ~lit /\ At(i) \in {"\n", "\r", "\t"} THEN Bad
            ELSE IF At(i) = "\\"
            THEN IF At(i + 1) \in {"\"", "\\"} \/ (lit /\ At(i + 1) = "'")
                 THEN chars(i + 2, q, long, acc \o At(i + 1))
                 ELSE IF At(i + 1) \in {"n", "r", "t"}
                 THEN chars(i + 2, q, long,
                            acc \o (IF At(i + 1) = "n" THEN "\n"
                                    ELSE IF At(i + 1) = "r" THEN "\r" ELSE "\t"))
                 ELSE IF lit /\ At(i + 1) \in {"{", "}", "[", "]", "(", ")", ",", ":", ".", "-", " "}
                 THEN \* Python keeps a backslash that starts no escape
                      chars(i + 2, q, long, acc \o "\\" \o At(i + 1))
                 ELSE Bad
            ELSE chars(i + 1, q, long, acc \o At(i))
        (* the string literal at i, of which r is the first literal;
           Python joins the literals that follow it *)
        Joined(acc, r) ==
            IF ~r.ok THEN Bad
            ELSE IF lit /\ At(skip(r.nxt)) \in {"\"", "'"}
            THEN strings(skip(r.nxt), acc \o r.node.v)
            ELSE Got(StrV(acc \o r.node.v), r.nxt)
        strings(i, acc) ==
            Joined(acc, IF lit /\ Word(i, <<At(i), At(i), At(i)>>)
                        THEN chars(i + 3, At(i), TRUE, "")
                        ELSE chars(i + 1, At(i), FALSE, ""))
        Negated(r) == IF r.ok THEN Got(Neg(r.node), r.nxt) ELSE Bad
        Keyword(i, w, node) ==
            IF Word(i, w) /\ ~(lit /\ At(i + Len(w)) \in DigitChars) THEN Got(node, i + Len(w))
            ELSE Bad
        (* the value token at i: a number, a string or a constant.  A JSON
           number takes its sign with it. *)
        value(i) ==
            LET c == At(i)
            IN  IF lit /\ Word(i, <<".", ".", ".">>) THEN Got([k |-> "ellipsis"], i + 3)
                ELSE IF c \in DigitChars \/ (lit /\ c = ".") THEN number(i)
                ELSE IF c = "\"" \/ (lit /\ c = "'") THEN strings(i, "")
                ELSE IF c = "-" /\ g = "py" /\ Word(i + 1, <<"I", "n", "f", "i", "n", "i", "t", "y">>)
                THEN Got(NegInf, i + 9)
                ELSE IF c = "-"
                THEN (IF At(i + 1) \in DigitChars THEN Negated(number(i + 1)) ELSE Bad)
                ELSE IF c = "t" /\ ~lit THEN Keyword(i, <<"t", "r", "u", "e">>, BoolV(TRUE))
                ELSE IF c = "f" /\ ~lit
                THEN Keyword(i, <<"f", "a", "l", "s", "e">>, BoolV(FALSE))
                ELSE IF c = "n" /\ ~lit THEN Keyword(i, <<"n", "u", "l", "l">>, NullV)
                ELSE IF c = "T" /\ lit THEN Keyword(i, <<"T", "r", "u", "e">>, BoolV(TRUE))
                ELSE IF c = "F" /\ lit
                THEN Keyword(i, <<"F", "a", "l", "s", "e">>, BoolV(FALSE))
                ELSE IF c = "N" /\ lit THEN Keyword(i, <<"N", "o", "n", "e">>, NullV)
                ELSE IF c = "N" /\ g = "py" THEN Keyword(i, <<"N", "a", "N">>, NaN)
                ELSE IF c = "I" /\ g = "py"
                THEN Keyword(i, <<"I", "n", "f", "i", "n", "i", "t", "y">>, PosInf)
                ELSE Bad
        (* the tokens from i on: value tokens and punctuation; round
           brackets and the minus operator are Python's *)
        Token(acc, r) ==
            IF r.ok THEN tokens(r.nxt, Append(acc, [t |-> "value", node |-> r.node]))
            ELSE Bad
        tokens(i, acc) ==
            LET j == skip(i)
            IN  IF j > n THEN Got(acc, j)
                ELSE IF At(j) \in {"[", "]", "{", "}", ",", ":"}
                        \/ (lit /\ At(j) \in {"(", ")", "-"})
                THEN tokens(j + 1, Append(acc, [t |-> At(j)]))
                ELSE Token(acc, value(j))
        (* An open bracket, or the whole text (kind ""): the members read
           so far, the key that waits for its value, whether the braces
           hold a dict or a set, whether a comma was met, and the member
           being read: its node when it has one (cur), the minus signs
           before its next operand (neg), whether a binary minus waits for
           its right operand (bin) *)
        Frame(kind) ==
            [kind |-> kind, items |-> <<>>, key |-> <<>>, mode |-> "", commas |-> FALSE,
             cur |-> <<>>, neg |-> 0, bin |-> FALSE]
        Fresh(f) == f.cur = <<>> /\ f.neg = 0
        Complete(f) == f.cur # <<>> /\ f.neg = 0 /\ ~f.bin
        Operand(f) == f.cur = <<>> \/ f.bin
        Next(f) == [f EXCEPT !.cur = <<>>, !.neg = 0, !.bin = FALSE]
        (* the operand x taken into the member being read: a minus sign
           applies to a number constant only, a binary minus to nothing *)
        Take(f, x) ==
            [f EXCEPT !.neg = 0, !.bin = FALSE,
                      !.cur = IF f.bin THEN <<Malformed>>
                              ELSE IF f.neg = 0 THEN <<x>>
                              ELSE IF f.neg = 1 /\ x.k \in {"int", "float"}
                              THEN <<[k |-> "signed", v |-> Neg(x)]>>
                              ELSE <<Malformed>>]
        All(f) == IF Fresh(f) THEN f.items ELSE Append(f.items, f.cur[1])
        (* the node of a bracket that closes, <<>> if it cannot close here;
           literal_eval lets a comma trail the last member *)
        Closed(f) ==
            IF ~(Fresh(f) \/ Complete(f)) THEN <<>>
            ELSE IF Fresh(f) /\ f.items # <<>> /\ ~lit THEN <<>>
            ELSE IF f.kind = "list" THEN <<[k |-> "list", v |-> All(f)]>>
            ELSE IF f.kind = "tuple"
            THEN (IF Complete(f) /\ ~f.commas THEN f.cur
                  ELSE <<[k |-> "tuple", v |-> All(f)]>>)
            ELSE IF f.mode = "dict"
            THEN (IF f.key = <<>> /\ Fresh(f) THEN <<[k |-> "dict", v |-> f.items]>>
                  ELSE IF f.key # <<>> /\ Complete(f)
                  THEN <<[k |-> "dict", v |-> Append(f.items, <<f.key[1], f.cur[1]>>)]>>
                  ELSE <<>>)
            ELSE IF f.mode = "" /\ Fresh(f) THEN <<[k |-> "dict", v |-> <<>>]>>
            ELSE IF lit THEN <<[k |-> "set", v |-> All(f)]>>
            ELSE <<>>
        (* the node of the innermost bracket taken into the one around it *)
        Close(toks, k, st, node) ==
            IF node = <<>> THEN Bad
            ELSE parse(toks, k + 1,
                       Append(SubSeq(st, 1, Len(st) - 2), Take(st[Len(st) - 1], node[1])))
        (* the tokens from k on read into the innermost open bracket, the
           last frame of the stack st *)
        parse(toks, k, st) ==
            LET f == st[Len(st)]
                below == SubSeq(st, 1, Len(st) - 1)
                tok == toks[k]
                Into(h) == parse(toks, k + 1, Append(below, h))
            IN  IF k > Len(toks)
                THEN (IF Len(st) > 1 THEN Bad
                      ELSE IF ~f.commas
                      THEN (IF Complete(f) THEN Got(f.cur[1], k) ELSE Bad)
                      ELSE IF Complete(f) \/ Fresh(f)
                      THEN Got([k |-> "tuple", v |-> All(f)], k)
                      ELSE Bad)
                ELSE IF tok.t = "value"
                THEN (IF Operand(f) THEN Into(Take(f, tok.node)) ELSE Bad)
                ELSE IF tok.t = "-"
                THEN (IF Operand(f) THEN Into([f EXCEPT !.neg = f.neg + 1])
                      ELSE Into([f EXCEPT !.bin = TRUE]))
                ELSE IF tok.t \in {"[", "(", "{"}
                THEN (IF Operand(f)
                      THEN parse(toks, k + 1,
                                 Append(st, Frame(CASE tok.t = "[" -> "list"
                                                    [] tok.t = "(" -> "tuple"
                                                    [] tok.t = "{" -> "brace")))
                      ELSE Bad)
                ELSE IF tok.t = ","
                THEN (IF ~Complete(f) \/ (f.kind = "" /\ ~lit) THEN Bad
                      ELSE IF f.kind # "brace"
                      THEN Into(Next([f EXCEPT !.items = All(f), !.commas = TRUE]))
                      ELSE IF f.mode = "dict"
                      THEN (IF f.key = <<>> THEN Bad
                            ELSE Into(Next([f EXCEPT
                                     !.items = Append(f.items, <<f.key[1], f.cur[1]>>),
                                     !.key = <<>>])))
                      ELSE IF lit THEN Into(Next([f EXCEPT !.items = All(f), !.mode = "set"]))
                      ELSE Bad)
                ELSE IF tok.t = ":"
                THEN (IF /\ f.kind = "brace" /\ f.mode # "set" /\ f.key = <<>> /\ Complete(f)
                         /\ (lit \/ f.cur[1].k = "str")
                      THEN Into(Next([f EXCEPT !.key = f.cur, !.mode = "dict"]))
                      ELSE Bad)
                ELSE \* a closing bracket
                     IF /\ Len(st) > 1
                        /\ f.kind = (CASE tok.t = "]" -> "list" [] tok.t = ")" -> "tuple"
                                       [] tok.t = "}" -> "brace")
                     THEN Close(toks, k, st, Closed(f))
                     ELSE Bad
        Parsed(toks) == IF toks.ok THEN parse(toks.node, 1, <<Frame("")>>) ELSE Bad
        Ok(val) == [ok |-> TRUE, val |-> val]
        Err(kind, msg) == [ok |-> FALSE, err |-> kind, msg |-> msg]
        Unhashable(x) == Err("TypeError", "unhashable type: '" \o PyUnhashable(x) \o "'")
        (* the member built as r joins those built before it; a set
           hashes each member as it takes it *)
        Member(kind, xs, acc, r) ==
            IF ~r.ok THEN r
            ELSE IF kind = "set" /\ PyUnhashable(r.val) # "" THEN Unhashable(r.val)
            ELSE members(kind, Tail(xs),
                         IF kind = "set" THEN PySetOf(Append(acc, r.val))
                         ELSE Append(acc, r.val))
        (* key, then value, then the key is hashed *)
        Entry(ps, acc, key, val) ==
            IF ~key.ok THEN key
            ELSE IF ~val.ok THEN val
            ELSE IF PyUnhashable(key.val) # "" THEN Unhashable(key.val)
            ELSE entries(Tail(ps), PyDictOf(Append(acc, <<key.val, val.val>>)))
        build(node) ==
            IF node.k = "bad" THEN Err("ValueError", "malformed node or string")
            ELSE IF node.k = "signed" THEN Ok(node.v)
            ELSE IF node.k \in {"list", "tuple", "set"} THEN members(node.k, node.v, <<>>)
            ELSE IF node.k = "dict" THEN entries(node.v, <<>>)
            ELSE Ok(node)
        members(kind, xs, acc) ==
            IF xs = <<>> THEN Ok([k |-> kind, v |-> acc])
            ELSE Member(kind, xs, acc, build(Head(xs)))
        entries(ps, acc) ==
            IF ps = <<>> THEN Ok(DictV(acc))
            ELSE Entry(ps, acc, build(Head(ps)[1]), build(Head(ps)[2]))
        Built(top) ==
            IF top.ok THEN build(top.node)
            ELSE Err(IF lit THEN "SyntaxError" ELSE "JSONDecodeError", "invalid syntax")
    IN  Built(Parsed(tokens(1, <<>>)))

(* How a call ends: with a value, or with an exception of a kind and message *)
Ret(val) == [t |-> "ret", val |-> val]
Raise(kind, msg) == [t |-> "raise", kind |-> kind, msg |-> msg]

(* The characters \w matches, of those the texts are made of *)
WordChars ==
    DigitChars \cup {"_"}
    \cup {"a", "b", "c", "d", "e", "f", "g", "h", "i", "j", "k", "l", "m",
          "n", "o", "p", "q", "r", "s", "t", "u", "v", "w", "x", "y", "z",
          "A", "B", "C", "D", "E", "F", "G", "H", "I", "J", "K", "L", "M",
          "N", "O", "P", "Q", "R", "S", "T", "U", "V", "W", "X", "Y", "Z"}

(* How far a text is of the shape -?\d*\.?\d*: whether all of it is, the
   number of digits before the point, whether there is a point, the number
   of digits after it *)
Decimal(cs) ==
    LET n == Len(cs)
        RECURSIVE digits(_)
        digits(j) == IF j <= n /\ cs[j] \in DigitChars THEN digits(j + 1) ELSE j
        i == IF n > 0 /\ cs[1] = "-" THEN 2 ELSE 1
        e1 == digits(i)
        dot == e1 <= n /\ cs[e1] = "."
        e2 == IF dot THEN digits(e1 + 1) ELSE e1
    IN  [ok |-> e2 = n + 1, whole |-> e1 - i, dot |-> dot,
         frac |-> IF dot THEN e2 - e1 - 1 ELSE 0]

(* int(text), float(text), parseInt(text, 10), parseFloat(text) of a text of
   that shape, in ticks *)
NumberOf(cs) ==
    LET d == Decimal(cs)
        i == IF cs[1] = "-" THEN 2 ELSE 1
        e1 == i + d.whole
        ticks == NatOf(cs, i, e1) * Scale
                 + (IF d.dot THEN NatOf(cs, e1 + 1, e1 + 1 + d.frac) * 10^(8 - d.frac)
                    ELSE 0)
    IN  IF cs[1] = "-" THEN -ticks ELSE ticks

(* re.sub(r'\btrue\b', 'True', ...), and the same for false and null *)
Normalize(cs) ==
    LET n == Len(cs)
        IsWord(i) == i \in 1..n /\ cs[i] \in WordChars
        Match(i, w) ==
            /\ i + Len(w) - 1 <= n
            /\ SubSeq(cs, i, i + Len(w) - 1) = w
            /\ ~IsWord(i - 1) /\ ~IsWord(i + Len(w))
        RECURSIVE scan(_)
        scan(i) ==
            IF i > n THEN <<>>
            ELSE IF Match(i, <<"t", "r", "u", "e">>)
            THEN <<"T", "r", "u", "e">> \o scan(i + 4)
            ELSE IF Match(i, <<"f", "a", "l", "s", "e">>)
            THEN <<"F", "a", "l", "s", "e">> \o scan(i + 5)
            ELSE IF Match(i, <<"n", "u", "l", "l">>)
            THEN <<"N", "o", "n", "e">> \o scan(i + 4)
            ELSE <<cs[i]>> \o scan(i + 1)
    IN  scan(1)

(* parse_expected_value: what it returns or raises.  An expected value that
   is not a str is handed to convert_expected.  The texts of the universe
   match neither the list(range(...)) nor the N**M form (lines 604-628),
   the JSON texts among them hold no type marker that convert_expected
   rejects, and the members of an OrderedDict([...]) argument are lists,
   tuples or numbers. *)
parse_expected_value(val) ==
    IF val.k # "text" THEN Ret(convert_expected(val))
    ELSE
    LET trimmed == Strip(val.v)
        n == Len(trimmed)
        frozenset == <<"f", "r", "o", "z", "e", "n", "s", "e", "t">>
        Counter == <<"C", "o", "u", "n", "t", "e", "r">>
        OrderedDict == <<"O", "r", "d", "e", "r", "e", "d", "D", "i", "c", "t">>
        deque == <<"d", "e", "q", "u", "e">>
        defaultdict == <<"d", "e", "f", "a", "u", "l", "t", "d", "i", "c", "t">>
        (* re.match of name, an opening bracket o, anything, a closing
           bracket c, in round brackets *)
        Call(name, o, c) ==
            /\ n >= Len(name) + 4
            /\ SubSeq(trimmed, 1, Len(name) + 2) = name \o <<"(", o>>
            /\ SubSeq(trimmed, n - 1, n) = <<c, ")">>
        Empty(name) == trimmed = name \o <<"(", ")">>
        inner(name) == Strip(SubSeq(trimmed, Len(name) + 3, n - 2))
        (* the one text ast.literal_eval is applied to: o + inner + c of
           the constructor form that matches (lines 560-602), the
           normalized text otherwise (line 645), which no constructor form
           is a literal of *)
        form == IF Call(frozenset, "{", "}") THEN frozenset
                ELSE IF Call(Counter, "{", "}") THEN Counter
                ELSE IF Call(OrderedDict, "[", "]") THEN OrderedDict
                ELSE IF Call(deque, "[", "]") THEN deque
                ELSE <<>>
        evaluated == IF form = <<>> THEN Normalize(trimmed)
                     ELSE <<trimmed[Len(form) + 2]>> \o inner(form) \o <<trimmed[n - 1]>>
        Keys(d) == [i \in DOMAIN d.v |-> d.v[i][1]]
        IsPair(x) == x.k \in {"list", "tuple"} /\ Len(x.v) = 2 /\ PyUnhashable(x.v[1]) = ""
        (* json the outcome of json.loads(trimmed), arg of literal_eval *)
        Result(json, shape, arg) ==
            IF json.ok THEN Ret(convert_expected(json.val))
            ELSE IF trimmed = <<"T", "r", "u", "e">> THEN Ret(BoolV(TRUE))
            ELSE IF trimmed = <<"F", "a", "l", "s", "e">> THEN Ret(BoolV(FALSE))
            ELSE IF trimmed = <<"N", "o", "n", "e">> THEN Ret(NullV)
            ELSE IF trimmed = <<"u", "n", "d", "e", "f", "i", "n", "e", "d">> THEN Ret(NullV)
            ELSE IF trimmed = <<"N", "a", "N">> THEN Ret(NaN)
            ELSE IF trimmed = <<"I", "n", "f", "i", "n", "i", "t", "y">> THEN Ret(PosInf)
            ELSE IF trimmed = <<"-", "I", "n", "f", "i", "n", "i", "t", "y">> THEN Ret(NegInf)
            ELSE IF Empty(frozenset) THEN Ret(FrozenSetV(<<>>))
            ELSE IF form = frozenset /\ inner(form) = <<>> THEN Ret(FrozenSetV(<<>>))
            ELSE IF form = frozenset /\ arg.ok /\ arg.val.k \in {"set", "dict"}
            THEN Ret(FrozenSetV(IF arg.val.k = "set" THEN arg.val.v ELSE Keys(arg.val)))
            ELSE IF Empty(Counter) THEN Ret(CounterV(<<>>))
            ELSE IF form = Counter /\ inner(form) = <<>> THEN Ret(CounterV(<<>>))
            ELSE IF form = Counter /\ arg.ok /\ arg.val.k \in {"set", "dict"}
            THEN Ret(CounterV(IF arg.val.k = "dict" THEN arg.val.v
                              ELSE [i \in DOMAIN arg.val.v |-> <<arg.val.v[i], IntV(1)>>]))
            ELSE IF Empty(OrderedDict) THEN Ret([k |-> "ordereddict", v |-> <<>>])
            ELSE IF form = OrderedDict /\ inner(form) = <<>>
            THEN Ret([k |-> "ordereddict", v |-> <<>>])
            ELSE IF /\ form = OrderedDict /\ arg.ok
                    /\ \A i \in DOMAIN arg.val.v : IsPair(arg.val.v[i])
            THEN Ret([k |-> "ordereddict",
                      v |-> PyDictOf([i \in DOMAIN arg.val.v |->
                                         <<arg.val.v[i].v[1], arg.val.v[i].v[2]>>])])
            ELSE IF Empty(deque) THEN Ret(DequeV(<<>>))
            ELSE IF form = deque /\ inner(form) = <<>> THEN Ret(DequeV(<<>>))
            ELSE IF form = deque /\ arg.ok THEN Ret(DequeV(arg.val.v))
            ELSE IF Empty(defaultdict) THEN Ret([k |-> "defaultdict", v |-> <<>>])
            ELSE IF shape.ok /\ ~shape.dot /\ shape.whole > 0
            THEN Ret(IntV(IF trimmed[1] = "-" THEN -NatOf(trimmed, 2, n + 1)
                          ELSE NatOf(trimmed, 1, n + 1)))
            ELSE IF shape.ok /\ shape.dot /\ (shape.frac > 0 \/ shape.whole > 0)
            THEN Ret(Fin(NumberOf(trimmed)))
            ELSE IF form = <<>> /\ arg.ok THEN Ret(arg.val)
            ELSE IF form = <<>> /\ arg.err = "TypeError" THEN Raise("TypeError", arg.msg)
            ELSE Ret(StrV(Join(val.v)))
    IN  Result(Literal(trimmed, "py"), Decimal(trimmed), Literal(evaluated, "lit"))

(* trimmed.startsWith('[') && trimmed.endsWith(']'), or the same of braces *)
Bracketed(trimmed) ==
    /\ trimmed # <<>>
    /\ \/ trimmed[1] = "[" /\ trimmed[Len(trimmed)] = "]"
       \/ trimmed[1] = "{" /\ trimmed[Len(trimmed)] = "}"

(* CGenerator.parseExpectedValue and CSharpGenerator.parseExpectedValue, the
   same text in both generators.  A JavaScript number is a double. *)
parseExpectedValue(expected) ==
    IF expected.k # "text" THEN expected
    ELSE
    LET trimmed == Strip(expected.v)
        json == Literal(trimmed, "js")
        shape == Decimal(trimmed)
    IN  IF Bracketed(trimmed) /\ json.ok THEN json.val
        ELSE IF trimmed = <<"t", "r", "u", "e">> THEN BoolV(TRUE)
        ELSE IF trimmed = <<"f", "a", "l", "s", "e">> THEN BoolV(FALSE)
        ELSE IF trimmed = <<"n", "u", "l", "l">> THEN NullV
        ELSE IF shape.ok /\ ~shape.dot /\ shape.whole > 0 THEN Fin(NumberOf(trimmed))
        ELSE IF shape.ok /\ (shape.frac > 0 \/ (~shape.dot /\ shape.whole > 0))
        THEN Fin(NumberOf(trimmed))
        ELSE StrV(Join(expected.v))

(* CGenerator.generateRunner: the C type of the block emitted for a test
   case, chosen by typeof expected and Number.isInteger(expected) *)
CBlockType(expected) ==
    IF expected.k = "float"
    THEN (IF NumberIsInteger(expected) THEN "int" ELSE "double")
    ELSE IF expected.k = "bool" THEN "bool"
    ELSE IF expected.k = "str" THEN "char*"
    ELSE IF expected.k = "null" THEN "void*"
    ELSE IF expected.k = "list" THEN "int*"
    ELSE "int"

(* The loop with the string state ignored: braces become square brackets
   wherever they stand *)
RECURSIVE CppRewriteEverywhere(_, _, _, _)
CppRewriteEverywhere(trimmed, i, inString, escapeNext) ==
    IF i > Len(trimmed) THEN <<>>
    ELSE LET char == trimmed[i]
         IN  IF char = "{"
             THEN <<"[">> \o CppRewriteEverywhere(trimmed, i + 1, inString, FALSE)
             ELSE IF char = "}"
             THEN <<"]">> \o CppRewriteEverywhere(trimmed, i + 1, inString, FALSE)
             ELSE <<char>> \o CppRewriteEverywhere(trimmed, i + 1, inString, FALSE)

(* The loop of convertCppToJson over the trimmed text: braces become square
   brackets unless inString; a backslash passes the next character through *)
RECURSIVE CppRewrite(_, _, _, _)
CppRewrite(trimmed, i, inString, escapeNext) ==
    IF i > Len(trimmed) THEN <<>>
    ELSE LET char == trimmed[i]
         IN  IF escapeNext
             THEN <<char>> \o CppRewrite(trimmed, i + 1, inString, FALSE)
             ELSE IF char = "\\"
             THEN <<char>> \o CppRewrite(trimmed, i + 1, inString, TRUE)
             ELSE IF char = "\""
             THEN <<char>> \o CppRewrite(trimmed, i + 1, ~inString, FALSE)
             ELSE IF ~inString /\ char = "{"
             THEN <<"[">> \o CppRewrite(trimmed, i + 1, inString, FALSE)
             ELSE IF ~inString /\ char = "}"
             THEN <<"]">> \o CppRewrite(trimmed, i + 1, inString, FALSE)
             ELSE <<char>> \o CppRewrite(trimmed, i + 1, inString, FALSE)

convertCppToJson(value) ==
    IF value.k # "text" THEN value
    ELSE
    LET trimmed == Strip(value.v)
        parsed == Literal(CppRewrite(trimmed, 1, FALSE, FALSE), "js")
    IN  IF trimmed = <<>> \/ trimmed[1] # "{" \/ trimmed[Len(trimmed)] # "}"
        THEN StrV(Join(value.v))
        ELSE IF parsed.ok THEN parsed.val
        ELSE StrV(Join(value.v))

---------------------------------------------------------------------------
(* Batch runs: the generated runner takes the test cases in order, evaluates
   each call, and writes the report after the last one.  A call either
   returns a value or raises a fault of some kind with some message. *)

MaxTests == 3

TestCase(call, expected) == [call |-> call, expected |-> expected]
TestLists(calls, expecteds) ==
    SeqsUpTo({TestCase(c, e) : c \in calls, e \in expecteds}, MaxTests)

CmpOff == phase = "off" /\ a = NullV /\ b = NullV /\ cmp = "none" /\ res = FALSE

Start(runner, lists) ==
    /\ lang = runner
    /\ tests \in lists
    /\ idx = 0
    /\ results = <<>>
    /\ report = <<>>
    /\ run = "loop"

(* The record of test case idx is appended and the loop moves on *)
Appended(record) ==
    /\ results' = Append(results, record)
    /\ idx' = idx + 1
    /\ UNCHANGED <<lang, tests, report, run>>
    /\ UNCHANGED cmpVars
    /\ UNCHANGED stepVars

(* The fault leaves the loop: the process ends and writes no report *)
Escaped ==
    /\ run' = "aborted"
    /\ UNCHANGED <<lang, tests, idx, results, report>>
    /\ UNCHANGED cmpVars
    /\ UNCHANGED stepVars

(* After the loop the report is written *)
Emitted ==
    /\ report' = results
    /\ run' = "done"
    /\ UNCHANGED <<lang, tests, idx, results>>
    /\ UNCHANGED cmpVars
    /\ UNCHANGED stepVars

---------------------------------------------------------------------------
(* Python runner: main loop *)

(* except Exception: the fault kinds that derive from Exception; SystemExit
   and KeyboardInterrupt derive from BaseException only *)
PyExceptionKinds == {"ZeroDivisionError", "ValueError", "TypeError"}
PyCaught(kind) == kind \in PyExceptionKinds

PyCalls ==
    {Ret(IntV(1)), Ret(TupleV(<<IntV(1)>>)), Ret(ObjectV("Node", "Node(1)")),
     Raise("ZeroDivisionError", "division by zero"), Raise("SystemExit", "1")}
PyExpecteds ==
    {IntV(1), ListV(<<IntV(1)>>), Marker("tuple", ListV(<<IntV(1)>>)),
     TextV(<<"{", "[", "1", "]", "}">>)}

PyOk(i, actual, expected) ==
    [index |-> i, actual |-> serialize(actual),
     expected_serialized |-> serialize(expected),
     passed |-> deep_equals(actual, expected), error |-> NullV]

(* f"{type(e).__name__}: {str(e)}" *)
PyError(i, kind, msg) ==
    [index |-> i, actual |-> NullV, expected_serialized |-> NullV,
     passed |-> FALSE, error |-> StrV(kind \o ": " \o msg)]

PyTestCase ==
    /\ lang = "python" /\ run = "loop" /\ idx < Len(tests)
    /\ LET tc == tests[idx + 1]
           expected == parse_expected_value(tc.expected)
       IN  IF tc.call.t = "ret" /\ expected.t = "ret"
           THEN Appended(PyOk(idx, tc.call.val, expected.val))
           ELSE IF tc.call.t = "ret"
           THEN \* parse_expected_value raises inside the try block
                Appended(PyError(idx, expected.kind, expected.msg))
           ELSE IF PyCaught(tc.call.kind)
           THEN Appended(PyError(idx, tc.call.kind, tc.call.msg))
           ELSE Escaped

PyEmit == lang = "python" /\ run = "loop" /\ idx = Len(tests) /\ Emitted

---------------------------------------------------------------------------
(* Java runner: the try/catch block generated per test case, and main *)

(* gson.fromJson(json, Object.class) of the stringified expected value:
   every JSON number becomes a Double *)
RECURSIVE GsonFromJson(_)
GsonFromJson(j) ==
    IF j.k = "int" THEN Fin(j.v * Scale)
    ELSE IF j.k = "list" THEN ListV([i \in DOMAIN j.v |-> GsonFromJson(j.v[i])])
    ELSE IF j.k = "dict"
    THEN DictV([i \in DOMAIN j.v |-> <<j.v[i][1], GsonFromJson(j.v[i][2])>>])
    ELSE j

(* catch (Exception e): the fault kinds that derive from Exception; a
   StackOverflowError is an Error *)
JavaExceptionKinds == {"ArithmeticException", "NullPointerException"}
JavaCaught(kind) == kind \in JavaExceptionKinds

JavaCalls ==
    {Ret(IntV(1)), Ret(ListV(<<IntV(1)>>)),
     Raise("ArithmeticException", "/ by zero"), Raise("StackOverflowError", "null")}
JavaExpecteds == {IntV(1), ListV(<<IntV(1)>>), StrV("a")}

JavaOk(i, actual, expected) ==
    [index |-> i, actual |-> actual, passed |-> deepEquals(actual, expected),
     error |-> NullV]

(* e.getClass().getSimpleName() + ": " + e.getMessage() *)
JavaError(i, kind, msg) ==
    [index |-> i, actual |-> NullV, passed |-> FALSE,
     error |-> StrV(kind \o ": " \o msg)]

JavaTestCase ==
    /\ lang = "java" /\ run = "loop" /\ idx < Len(tests)
    /\ LET tc == tests[idx + 1]
       IN  IF tc.call.t = "ret"
           THEN Appended(JavaOk(idx, tc.call.val, GsonFromJson(tc.expected)))
           ELSE IF JavaCaught(tc.call.kind)
           THEN Appended(JavaError(idx, tc.call.kind, tc.call.msg))
           ELSE Escaped

JavaEmit == lang = "java" /\ run = "loop" /\ idx = Len(tests) /\ Emitted

---------------------------------------------------------------------------
(* TypeScript runner: __serialize__, __parseExpected__ and the loop *)

RECURSIVE __serialize__(_)
__serialize__(value) ==
    IF value.k = "undef" THEN NullV
    ELSE IF value.k = "null" THEN NullV
    ELSE IF value.k = "float" /\ value.c = "nan" THEN StrV("NaN")
    ELSE IF value.k = "float" /\ value.c = "inf" THEN StrV("Infinity")
    ELSE IF value.k = "float" /\ value.c = "ninf" THEN StrV("-Infinity")
    ELSE IF value.k = "list"
    THEN ListV([i \in DOMAIN value.v |-> __serialize__(value.v[i])])
    ELSE IF value.k = "dict"
    THEN DictV([i \in DOMAIN value.v |->
                   <<value.v[i][1], __serialize__(value.v[i][2])>>])
    ELSE value

(* The expectation texts the batch runs below use: a special word, one
   integer text, and one text that is none of them and has no brackets *)
TsExpectedTexts == {TextV(<<"N", "a", "N">>), TextV(<<"1">>), TextV(<<"a">>)}

(* An expected value that is not a string is returned as it is; the value
   returned for a string no rule matches is the string itself *)
__parseExpected__(val) ==
    IF val.k # "text" THEN val
    ELSE
    LET trimmed == Strip(val.v)
        json == Literal(trimmed, "js")
        shape == Decimal(trimmed)
    IN  IF Bracketed(trimmed) /\ json.ok THEN json.val
        ELSE IF trimmed = <<"t", "r", "u", "e">> THEN BoolV(TRUE)
        ELSE IF trimmed = <<"f", "a", "l", "s", "e">> THEN BoolV(FALSE)
        ELSE IF trimmed = <<"n", "u", "l", "l">> THEN NullV
        ELSE IF trimmed = <<"u", "n", "d", "e", "f", "i", "n", "e", "d">> THEN Undefined
        ELSE IF trimmed = <<"N", "a", "N">> THEN NaN
        ELSE IF trimmed = <<"I", "n", "f", "i", "n", "i", "t", "y">> THEN PosInf
        ELSE IF trimmed = <<"-", "I", "n", "f", "i", "n", "i", "t", "y">> THEN NegInf
        ELSE IF shape.ok /\ ~shape.dot /\ shape.whole > 0 THEN Fin(NumberOf(trimmed))
        ELSE IF shape.ok /\ shape.dot /\ shape.frac > 0 THEN Fin(NumberOf(trimmed))
        ELSE StrV(Join(val.v))

(* What a call can throw: an Error object with a name and a message, or any
   other value *)
ErrorObject(name, message) == [k |-> "error", name |-> name, message |-> message]
Throw(val) == [t |-> "throw", val |-> val]

(* e.name and e.message cannot be read off null or undefined: the handler
   itself throws a TypeError *)
TsHandlerThrows(e) == e.k \in {"null", "undef"}

(* (e.name || 'Error') + ': ' + (e.message || String(e)) *)
TsErrorText(e) ==
    IF e.k = "error"
    THEN (IF e.name = "" THEN "Error" ELSE e.name) \o ": "
            \o (IF e.message = "" THEN e.name ELSE e.message)
    ELSE "Error: " \o e.v

TsCalls ==
    {Ret(Fin(Scale)), Ret(ListV(<<>>)), Ret(NaN),
     Throw(ErrorObject("RangeError", "too deep")), Throw(ErrorObject("TypeError", "")),
     Throw(StrV("boom")), Throw(NullV)}
TsExpecteds == {DictV(<<>>)} \cup TsExpectedTexts

TsOk(i, actual, expected) ==
    [index |-> i, actual |-> __serialize__(actual),
     expected_serialized |-> __serialize__(expected),
     passed |-> __deepEquals__(actual, expected), error |-> NullV]

TsError(i, e) ==
    [index |-> i, actual |-> NullV, expected_serialized |-> NullV,
     passed |-> FALSE, error |-> StrV(TsErrorText(e))]

TsTestCase ==
    /\ lang = "typescript" /\ run = "loop" /\ idx < Len(tests)
    /\ LET tc == tests[idx + 1]
       IN  IF tc.call.t = "ret"
           THEN Appended(TsOk(idx, tc.call.val, __parseExpected__(tc.expected)))
           ELSE IF ~TsHandlerThrows(tc.call.val)
           THEN Appended(TsError(idx, tc.call.val))
           ELSE Escaped

TsEmit == lang = "typescript" /\ run = "loop" /\ idx = Len(tests) /\ Emitted

---------------------------------------------------------------------------
(* C++ runner: compareResults and the block generated per test case.  The
   actual value is an int, a double, a std::string, a bool or a std::vector
   of these; the expected value is a nlohmann json value, whose numbers are
   integers or floats by their text. *)

JsonIsNumber(j) == j.k \in {"int", "float"}

(* expected.get<int>(): a float is truncated toward zero *)
JsonGetInt(j) ==
    IF j.k = "int" THEN j.v
    ELSE IF j.v >= 0 THEN j.v \div Scale ELSE -((-j.v) \div Scale)

RECURSIVE compareResults(_, _)
compareResults(actual, expected) ==
    IF actual.k = "int"
    THEN JsonIsNumber(expected) /\ actual.v = JsonGetInt(expected)
    ELSE IF actual.k = "float"
    THEN /\ JsonIsNumber(expected)
         /\ \/ IsNaN(actual) /\ IsNaN(ToDouble(expected))
            \/ DoubleEq(actual, ToDouble(expected))
    ELSE IF actual.k = "str" THEN expected.k = "str" /\ actual.v = expected.v
    ELSE IF actual.k = "bool" THEN expected.k = "bool" /\ actual.v = expected.v
    ELSE IF actual.k = "list"
    THEN /\ expected.k = "list"
         /\ Len(actual.v) = Len(expected.v)
         /\ \A i \in DOMAIN actual.v : compareResults(actual.v[i], expected.v[i])
    ELSE FALSE

(* catch (const std::exception& e): the thrown types that derive from
   std::exception; a thrown int or string literal does not *)
CppExceptionKinds == {"runtime_error", "out_of_range"}
CppCaught(kind) == kind \in CppExceptionKinds

CppCalls ==
    {Ret(IntV(1)), Ret(Fin(Scale)), Ret(ListV(<<IntV(1)>>)),
     Raise("runtime_error", "boom"), Raise("int", "42")}
CppExpecteds == {IntV(1), Fin(Scale + Scale \div 2), ListV(<<IntV(1)>>)}

CppOk(i, actual, expected) ==
    [index |-> i, actual |-> actual, passed |-> compareResults(actual, expected),
     error |-> NullV]

(* result["error"] = e.what() *)
CppError(i, kind, msg) ==
    [index |-> i, actual |-> NullV, passed |-> FALSE, error |-> StrV(msg)]

CppTestCase ==
    /\ lang = "cpp" /\ run = "loop" /\ idx < Len(tests)
    /\ LET tc == tests[idx + 1]
       IN  IF tc.call.t = "ret"
           THEN Appended(CppOk(idx, tc.call.val, tc.expected))
           ELSE IF CppCaught(tc.call.kind)
           THEN Appended(CppError(idx, tc.call.kind, tc.call.msg))
           ELSE Escaped

CppEmit == lang = "cpp" /\ run = "loop" /\ idx = Len(tests) /\ Emitted

---------------------------------------------------------------------------
(* The batch runs of the four runners *)

Init ==
    /\ CmpOff
    /\ StepsOff
    /\ \/ Start("python", TestLists(PyCalls, PyExpecteds))
       \/ Start("java", TestLists(JavaCalls, JavaExpecteds))
       \/ Start("typescript", TestLists(TsCalls, TsExpecteds))
       \/ Start("cpp", TestLists(CppCalls, CppExpecteds))

Next ==
    \/ PyTestCase \/ PyEmit
    \/ JavaTestCase \/ JavaEmit
    \/ TsTestCase \/ TsEmit
    \/ CppTestCase \/ CppEmit

Spec == Init /\ [][Next]_vars

---------------------------------------------------------------------------
(* Claims about the batch runs, checked under Spec *)

Raised(tc) == tc.call.t # "ret"

(* C1: for any ordered list of n test cases, whichever of their calls raise,
   the run of the Python or TypeScript runner ends with a report of exactly
   n records, the record at position k carrying index k; a raising call
   keeps no later index from being evaluated and reported. *)
C1_ReportHasEveryIndex ==
    (lang \in {"python", "typescript"} /\ run # "loop")
        => /\ run = "done"
           /\ Len(report) = Len(tests)
           /\ \A k \in DOMAIN report : report[k].index = k - 1

(* C2: every fault raised by a test case's call, whatever its kind in the
   Python or Java runtime, is caught inside that test case and becomes that
   test case's record; no fault ends the batch before the report. *)
C2_NoFaultEscapes ==
    lang \in {"python", "java"}
        => /\ run # "aborted"
           /\ \A k \in DOMAIN results :
                  Raised(tests[k]) => results[k].error # NullV

(* C3: in the C++ and Python runners, the record of a test case whose call
   raises has actual null, passed false and error "<Kind>: <message>" with
   Kind the name of the fault; the record of a call that returns has error
   null; and a non-null error goes with passed false and actual null. *)
C3_ErrorRecordShape ==
    lang \in {"cpp", "python"}
        => \A k \in DOMAIN results :
              LET tc == tests[k]
                  r == results[k]
              IN  /\ Raised(tc)
                        => /\ r.index = k - 1
                           /\ r.actual = NullV
                           /\ r.passed = FALSE
                           /\ r.error = StrV(tc.call.kind \o ": " \o tc.call.msg)
                  /\ ~Raised(tc) => r.error = NullV
                  /\ r.error # NullV => (r.passed = FALSE /\ r.actual = NullV)

---------------------------------------------------------------------------
(* Function harness: one input, one of the parsing or serializing functions
   applied to it.  phase is "input" and then "applied"; a is the input, cmp
   the function that ran, b what it returned or raised. *)

MaxText == 3

(* The input texts: every text of up to MaxText characters over a small
   alphabet, every text of up to MaxText quotes, backslashes, braces and
   commas in a pair of braces, and the texts that need letters or more
   length.  A
   finite double is a count of ticks of 1/Scale below 2^31, so no text
   spells a number of three or more digits. *)
Texts ==
    LET FreeChars == {"1", ".", "-", "[", "]", "{", "}", ",", " "}
        QuoteChars == {"\"", "\\", "{", "}", ","}
        ShortNumbers(cs) ==
            \A i \in 1..(Len(cs) - 2) :
                ~({cs[i], cs[i + 1], cs[i + 2]} \subseteq DigitChars)
        WordTexts ==
            {
            \* the keywords
            <<"t", "r", "u", "e">>,
            <<"f", "a", "l", "s", "e">>,
            <<"n", "u", "l", "l">>,
            <<"N", "o", "n", "e">>,
            <<"u", "n", "d", "e", "f", "i", "n", "e", "d">>,
            <<"N", "a", "N">>,
            <<"I", "n", "f", "i", "n", "i", "t", "y">>,
            <<"-", "I", "n", "f", "i", "n", "i", "t", "y">>,
            <<" ", "t", "r", "u", "e", " ">>,
            \* numbers
            <<"3">>,
            <<"-", "3">>,
            <<"3", ".", "0">>,
            <<"3", ".">>,
            <<".", "5">>,
            <<"1", ".", "5">>,
            \* JSON texts
            <<"[", "1", ",", " ", "2", "]">>,
            <<"{", "\"", "a", "\"", ":", " ", "1", "}">>,
            <<"\"", "a", "\"">>,
            <<"\"", "N", "a", "N", "\"">>,
            <<"[", "t", "r", "u", "e", ",", " ", "n", "u", "l", "l", "]">>,
            <<"{", "\"", "a", "\"", ":", " ", "[", "1", ".", "5", ",", " ", "\"", "b", "\"", "]", "}">>,
            <<"{", "\"", "_", "_", "t", "y", "p", "e", "_", "_", "\"", ":", " ", "\"", "t", "u", "p", "l", "e", "\"", ",", " ", "\"", "v", "a", "l", "u", "e", "\"", ":", " ", "[", "1", "]", "}">>,
            \* Python displays
            <<"{", "[", "1", "]", "}">>,
            <<"(", "1", ",", " ", "2", ")">>,
            <<"{", "1", ",", " ", "2", "}">>,
            <<"{", "'", "a", "'", ":", " ", "1", "}">>,
            <<"{", "1", ":", " ", "[", "1", "]", "}">>,
            <<"{", "(", "1", ",", " ", "[", "1", "]", ")", "}">>,
            \* constructor forms
            <<"f", "r", "o", "z", "e", "n", "s", "e", "t", "(", ")">>,
            <<"f", "r", "o", "z", "e", "n", "s", "e", "t", "(", "{", "1", ",", " ", "2", "}", ")">>,
            <<"f", "r", "o", "z", "e", "n", "s", "e", "t", "(", "[", "1", ",", " ", "2", "]", ")">>,
            <<"f", "r", "o", "z", "e", "n", "s", "e", "t", "(", "{", "[", "1", "]", "}", ")">>,
            <<"C", "o", "u", "n", "t", "e", "r", "(", ")">>,
            <<"C", "o", "u", "n", "t", "e", "r", "(", "{", "'", "a", "'", ":", " ", "1", "}", ")">>,
            <<"C", "o", "u", "n", "t", "e", "r", "(", "[", "1", ",", " ", "1", "]", ")">>,
            <<"O", "r", "d", "e", "r", "e", "d", "D", "i", "c", "t", "(", ")">>,
            <<"O", "r", "d", "e", "r", "e", "d", "D", "i", "c", "t", "(", "[", "(", "'", "a", "'", ",", " ", "1", ")", "]", ")">>,
            <<"O", "r", "d", "e", "r", "e", "d", "D", "i", "c", "t", "(", "{", "1", ":", " ", "2", "}", ")">>,
            <<"d", "e", "q", "u", "e", "(", ")">>,
            <<"d", "e", "q", "u", "e", "(", "[", "1", "]", ")">>,
            <<"d", "e", "q", "u", "e", "(", "[", "1", ",", " ", "[", "2", "]", "]", ")">>,
            <<"d", "e", "q", "u", "e", "(", "(", "1", ",", " ", "2", ")", ")">>,
            <<"d", "e", "f", "a", "u", "l", "t", "d", "i", "c", "t", "(", ")">>,
            <<"d", "e", "f", "a", "u", "l", "t", "d", "i", "c", "t", "(", "i", "n", "t", ")">>,
            \* brace-delimited aggregates
            <<"{", "{", "1", ",", "1", "}", ",", "{", "2", ",", "2", "}", "}">>,
            <<"{", "1", ",", "2", ",", "3", "}">>,
            <<" ", "{", "1", "}", " ">>,
            <<"{", "\"", "{", "\"", "}">>,
            <<"{", "\"", "a", "\\", "\"", "}", "\"", "}">>,
            <<"{", "\"", "a", "}">>,
            <<"{", "\\", "{", "}">>,
            <<"{", "\"", "}", "\"">>,
            <<"{", "\"", "a", "\"", ",", " ", "{", "\"", "b", "}", "\"", "}", "}">>,
            \* texts no rule matches
            <<" ", "a", " ">>,
            <<"h", "e", "l", "l", "o">>,
            <<"a", " ", "t", "r", "u", "e", " ", "b">>
            }
    IN  {TextV(cs) : cs \in {t \in SeqsUpTo(FreeChars, MaxText) : ShortNumbers(t)}
                            \cup {<<"{">> \o t \o <<"}">> : t \in SeqsUpTo(QuoteChars, MaxText)}
                            \cup WordTexts}

(* The values handed to serialize: those of the comparator universe, and a
   set of two members whose serialized forms have the same str, in both
   orders of iteration *)
PySerializable ==
    PyVals \cup {SetV(<<BoolV(TRUE), StrV("True")>>), SetV(<<StrV("True"), BoolV(TRUE)>>)}
(* The values handed to __serialize__, the string NaN among them *)
TsSerializable == TsVals \cup {StrV("NaN")}

(* A JavaScript string that a generator embeds in the source it writes *)
StringV(cs) == [k |-> "string", v |-> cs]

(* str.replace(/c/g, w): every occurrence of the character c replaced by the
   characters w, left to right *)
RECURSIVE replace(_, _, _)
replace(str, c, w) ==
    IF str = <<>> THEN <<>>
    ELSE (IF Head(str) = c THEN w ELSE <<Head(str)>>) \o replace(Tail(str), c, w)

(* The same passes with the quotes escaped before the backslashes *)
escapeJavaQuotesFirst(str) ==
    replace(replace(replace(replace(replace(str,
        "\"", <<"\\", "\"">>), "\\", <<"\\", "\\">>), "\n", <<"\\", "n">>),
        "\r", <<"\\", "r">>), "\t", <<"\\", "t">>)

escapeJava(str) ==
    replace(replace(replace(replace(replace(str,
        "\\", <<"\\", "\\">>), "\"", <<"\\", "\"">>), "\n", <<"\\", "n">>),
        "\r", <<"\\", "r">>), "\t", <<"\\", "t">>)

escapeCpp(str) ==
    replace(replace(replace(replace(replace(str,
        "\\", <<"\\", "\\">>), "\"", <<"\\", "\"">>), "\n", <<"\\", "n">>),
        "\r", <<"\\", "r">>), "\t", <<"\\", "t">>)

escapeCSharp(str) ==
    replace(replace(replace(replace(replace(str,
        "\\", <<"\\", "\\">>), "\"", <<"\\", "\"">>), "\n", <<"\\", "n">>),
        "\r", <<"\\", "r">>), "\t", <<"\\", "t">>)

escapeC(str) ==
    replace(replace(replace(replace(replace(str,
        "\\", <<"\\", "\\">>), "\"", <<"\\", "\"">>), "\n", <<"\\", "n">>),
        "\r", <<"\\", "r">>), "\t", <<"\\", "t">>)

(* The strings the escape functions are applied to: over backslash, double
   quote, newline, carriage return, tab and two ordinary characters, one of
   them the letter of an escape *)
EscapeChars == {"\\", "\"", "\n", "\r", "\t", "a", "n"}
Strings == {StringV(cs) : cs \in SeqsUpTo(EscapeChars, MaxText)}

(* The user's file and one call expression, as the Java and C# generators
   take them *)
Submission(content, call) == [k |-> "submission", content |-> content, call |-> call]

(* classPattern.exec in a loop: the word after every "class" and white
   space, left to right, each search starting where the last match ended.
   The optional "public " and "static " before it change neither the names
   nor where a match ends, so the Java and the C# pattern capture the same
   names. *)
classNames(content) ==
    LET n == Len(content)
        At(i) == IF i \in 1..n THEN content[i] ELSE ""
        RECURSIVE spaces(_), word(_), exec(_, _)
        spaces(i) == IF At(i) \in {" ", "\n", "\t", "\r"} THEN spaces(i + 1) ELSE i
        word(i) == IF At(i) \in WordChars THEN word(i + 1) ELSE i
        Found(i, acc, from, to) ==
            IF /\ i + 4 <= n
               /\ SubSeq(content, i, i + 4) = <<"c", "l", "a", "s", "s">>
               /\ from > i + 5 /\ to > from
            THEN exec(to, Append(acc, SubSeq(content, from, to - 1)))
            ELSE exec(i + 1, acc)
        exec(i, acc) ==
            IF i > n THEN acc ELSE Found(i, acc, spaces(i + 5), word(spaces(i + 5)))
    IN  exec(1, <<>>)

(* classNames.find(n => n === 'Solution') || classNames[0] || null; <<>>
   stands for null *)
primaryClass(names) ==
    IF \E i \in DOMAIN names : names[i] = <<"S", "o", "l", "u", "t", "i", "o", "n">>
    THEN <<"S", "o", "l", "u", "t", "i", "o", "n">>
    ELSE IF names # <<>> THEN names[1]
    ELSE <<>>

(* /^[A-Z][a-zA-Z0-9_]*\./.test(callCode) *)
hasClassPrefix(callCode) ==
    LET RECURSIVE word(_)
        word(i) == IF i <= Len(callCode) /\ callCode[i] \in WordChars THEN word(i + 1) ELSE i
    IN  /\ callCode # <<>>
        /\ callCode[1] \in {"A", "B", "C", "D", "E", "F", "G", "H", "I", "J", "K", "L", "M",
                            "N", "O", "P", "Q", "R", "S", "T", "U", "V", "W", "X", "Y", "Z"}
        /\ word(2) <= Len(callCode)
        /\ callCode[word(2)] = "."

(* The call expression as the generated test block embeds it *)
callCode(content, call) ==
    LET primary == primaryClass(classNames(content))
    IN  IF primary # <<>> /\ ~hasClassPrefix(call) THEN primary \o <<".">> \o call
        ELSE call

(* The submissions the generators are applied to: user code with one class,
   with several, with none, with a class named in lower case, with the word
   class in a comment, and calls with and without a class in front *)
Submissions ==
    LET Contents ==
            {<<"c", "l", "a", "s", "s", " ", "S", "o", "l", "u", "t", "i", "o", "n", "{", "}">>,
             <<"c", "l", "a", "s", "s", " ", "A", "{", "}", "c", "l", "a", "s", "s", " ", "S", "o", "l", "u", "t", "i", "o", "n", "{", "}">>,
             <<"c", "l", "a", "s", "s", " ", "A", "{", "}", "c", "l", "a", "s", "s", " ", "B", "{", "}">>,
             <<"i", "n", "t", " ", "f", "(", ")", "{", "}">>,
             <<"p", "u", "b", "l", "i", "c", " ", "c", "l", "a", "s", "s", " ", "s", "{", "}">>,
             <<"/", "*", " ", "a", " ", "c", "l", "a", "s", "s", " ", "f", "o", "r", " ", "x", " ", "*", "/", "c", "l", "a", "s", "s", " ", "A", "{", "}">>,
             <<"p", "u", "b", "l", "i", "c", " ", "s", "t", "a", "t", "i", "c", " ", "c", "l", "a", "s", "s", " ", "S", "{", "}">>}
        Calls ==
            {<<"f", "(", ")">>,
             <<"A", ".", "f", "(", ")">>,
             <<"s", ".", "f", "(", ")">>,
             <<"M", "a", "t", "h", ".", "f", "(", ")">>}
    IN  {Submission(content, call) : content \in Contents, call \in Calls}

(* Integer.toString, Int32.ToString: the decimal digits of an integer *)
RECURSIVE IntegerToString(_)
IntegerToString(n) ==
    IF n < 0 THEN <<"-">> \o IntegerToString(-n)
    ELSE IF n < 10 THEN <<ToString(n)>>
    ELSE IntegerToString(n \div 10) \o <<ToString(n % 10)>>

(* Double.toString, Double.ToString of a finite double with at most one
   decimal: Java writes the fraction also when it is zero *)
DoubleToString(d, zero) ==
    LET tenths == Abs(d.v) \div (Scale \div 10)
    IN  (IF d.v < 0 THEN <<"-">> ELSE <<>>)
            \o IntegerToString(tenths \div 10)
            \o (IF tenths % 10 # 0 \/ zero THEN <<".">> \o IntegerToString(tenths % 10)
                ELSE <<>>)

(* String.join(",", texts) *)
RECURSIVE Commas(_)
Commas(texts) ==
    IF texts = <<>> THEN <<>>
    ELSE IF Len(texts) = 1 THEN texts[1]
    ELSE texts[1] \o <<",">> \o Commas(Tail(texts))

(* s.replace("\\", "\\\\").replace("\"", "\\\""), in quotes *)
Quoted(str) ==
    <<"\"">> \o replace(replace(str, "\\", <<"\\", "\\">>), "\"", <<"\\", "\"">>) \o <<"\"">>

(* Java runner: serialize, the text of a value.  A String is a StringV; of
   the object of any other class v is the toString() text. *)
RECURSIVE JavaSerialize(_)
JavaSerialize(obj) ==
    IF obj.k = "null" THEN <<"n", "u", "l", "l">>
    ELSE IF obj.k = "bool"
    THEN (IF obj.v THEN <<"t", "r", "u", "e">> ELSE <<"f", "a", "l", "s", "e">>)
    ELSE IF obj.k = "float" /\ obj.c = "nan" THEN <<"\"", "N", "a", "N", "\"">>
    ELSE IF obj.k = "float" /\ obj.c = "inf"
    THEN <<"\"", "I", "n", "f", "i", "n", "i", "t", "y", "\"">>
    ELSE IF obj.k = "float" /\ obj.c = "ninf"
    THEN <<"\"", "-", "I", "n", "f", "i", "n", "i", "t", "y", "\"">>
    ELSE IF obj.k = "int" THEN IntegerToString(obj.v)
    ELSE IF obj.k = "float" THEN DoubleToString(obj, TRUE)
    ELSE IF obj.k = "string" THEN Quoted(obj.v)
    ELSE IF obj.k \in {"list", "array"}
    THEN <<"[">> \o Commas([i \in DOMAIN obj.v |-> JavaSerialize(obj.v[i])]) \o <<"]">>
    ELSE IF obj.k = "dict"
    THEN <<"{">>
         \o Commas([i \in DOMAIN obj.v |->
                       <<"\"">> \o obj.v[i][1].v \o <<"\"", ":">>
                           \o JavaSerialize(obj.v[i][2])])
         \o <<"}">>
    ELSE <<"\"">> \o obj.v \o <<"\"">>

(* One result as the runner keeps it: new TestResult(i, a, p, e), and the
   arguments of FormatResult *)
TestResult(index, actual, passed, error) ==
    [index |-> index, actual |-> actual, passed |-> passed, error |-> error]

(* Java runner: the report that main prints *)
main(list) ==
    <<"[">>
    \o Commas([i \in DOMAIN list |->
          <<"{", "\"", "i", "n", "d", "e", "x", "\"", ":">>
              \o IntegerToString(list[i].index)
          \o <<",", "\"", "a", "c", "t", "u", "a", "l", "\"", ":">>
              \o JavaSerialize(list[i].actual)
          \o <<",", "\"", "p", "a", "s", "s", "e", "d", "\"", ":">>
              \o (IF list[i].passed THEN <<"t", "r", "u", "e">>
                  ELSE <<"f", "a", "l", "s", "e">>)
          \o <<",", "\"", "e", "r", "r", "o", "r", "\"", ":">>
              \o (IF list[i].error = NullV THEN <<"n", "u", "l", "l">>
                  ELSE Quoted(list[i].error.v))
          \o <<"}">>])
    \o <<"]">>

(* C# runner: Serialize, the text of a value.  The values are null, bools,
   numbers, strings, chars and lists; a char is a StringV of one
   character. *)
RECURSIVE Serialize(_)
Serialize(obj) ==
    IF obj.k = "null" THEN <<"n", "u", "l", "l">>
    ELSE IF obj.k = "bool"
    THEN (IF obj.v THEN <<"t", "r", "u", "e">> ELSE <<"f", "a", "l", "s", "e">>)
    ELSE IF obj.k = "string" THEN Quoted(obj.v)
    ELSE IF obj.k = "char" THEN <<"\"">> \o obj.v \o <<"\"">>
    ELSE IF obj.k = "float" /\ obj.c = "nan" THEN <<"\"", "N", "a", "N", "\"">>
    ELSE IF obj.k = "float" /\ obj.c = "inf"
    THEN <<"\"", "I", "n", "f", "i", "n", "i", "t", "y", "\"">>
    ELSE IF obj.k = "float" /\ obj.c = "ninf"
    THEN <<"\"", "-", "I", "n", "f", "i", "n", "i", "t", "y", "\"">>
    ELSE IF obj.k = "int" THEN IntegerToString(obj.v)
    ELSE IF obj.k = "float" THEN DoubleToString(obj, FALSE)
    ELSE IF obj.k = "list"
    THEN <<"[">> \o Commas([i \in DOMAIN obj.v |-> Serialize(obj.v[i])]) \o <<"]">>
    ELSE <<"\"">> \o obj.v \o <<"\"">>

(* C# runner: FormatResult; actual is a text already *)
FormatResult(index, actual, passed, error) ==
    <<"{", "\"", "i", "n", "d", "e", "x", "\"", ":">> \o IntegerToString(index)
    \o <<",", "\"", "a", "c", "t", "u", "a", "l", "\"", ":">> \o actual
    \o <<",", "\"", "p", "a", "s", "s", "e", "d", "\"", ":">>
        \o (IF passed THEN <<"t", "r", "u", "e">> ELSE <<"f", "a", "l", "s", "e">>)
    \o <<",", "\"", "e", "r", "r", "o", "r", "\"", ":">>
        \o (IF error = NullV THEN <<"n", "u", "l", "l">> ELSE Quoted(error.v))
    \o <<"}">>

(* C# runner: the report that Main prints; each test block has formatted
   its result, the actual value through Serialize *)
Main(list) ==
    <<"[">>
    \o Commas([i \in DOMAIN list |->
          FormatResult(list[i].index, Serialize(list[i].actual),
                       list[i].passed, list[i].error)])
    \o <<"]">>

(* The results the reports are written from: at most MaxResults records in
   index order, each of a call that returned (a value, a verdict, no
   error) or raised (null, false, a message).  Strings and messages hold a
   letter, a quote, a backslash or a line break. *)
MaxResults == 2

ResultLists ==
    LET Messages == {StringV(<<"a">>), StringV(<<"\"">>), StringV(<<"\\", "n">>),
                     StringV(<<"a", "\n">>)}
        Actuals == Messages
                   \cup {NullV, BoolV(TRUE), IntV(1), IntV(-12), NaN, Fin(Scale + Scale \div 2),
                         [k |-> "char", v |-> <<"b">>],
                         ListV(<<>>), ListV(<<IntV(1), StringV(<<"a">>)>>)}
        Records(i) ==
            {TestResult(i, actual, passed, NullV) : actual \in Actuals, passed \in BOOLEAN}
            \cup {TestResult(i, NullV, FALSE, e) : e \in Messages}
    IN  UNION {{[k |-> "results", v |-> [i \in 1..n |-> [f[i] EXCEPT !.index = i - 1]]] :
                   f \in [1..n -> Records(0)]} :
               n \in 0..MaxResults}

InitFn ==
    /\ a \in Texts \cup PySerializable \cup TsSerializable \cup Strings \cup Submissions
              \cup ResultLists
    /\ b = NullV
    /\ phase = "input"
    /\ cmp = "none"
    /\ res = FALSE
    /\ RunOff
    /\ StepsOff

Applied(f, outcome) ==
    /\ phase = "input"
    /\ phase' = "applied"
    /\ cmp' = f
    /\ b' = outcome
    /\ UNCHANGED <<a, res>>
    /\ UNCHANGED runVars
    /\ UNCHANGED stepVars

(* An expected value is a text, or a JSON value that arrives decoded *)
IsExpected(x) ==
    \/ x.k = "text"
    \/ x \in {IntV(1), BoolV(TRUE), NullV, ListV(<<IntV(1)>>),
              DictV(<<<<StrV("a"), IntV(1)>>>>)}

PyParse == IsExpected(a) /\ Applied("parse_expected_value", parse_expected_value(a))
TsParse == IsExpected(a) /\ Applied("__parseExpected__", Ret(__parseExpected__(a)))
CParse == IsExpected(a) /\ Applied("parseExpectedValue", Ret(parseExpectedValue(a)))
CppConvert == IsExpected(a) /\ Applied("convertCppToJson", Ret(convertCppToJson(a)))
PySerialize == a \in PySerializable /\ Applied("serialize", Ret(serialize(a)))
TsSerialize == a \in TsSerializable /\ Applied("__serialize__", Ret(__serialize__(a)))
(* One test case of the C generator: the expected value is parsed and the
   block for its type emitted *)
CGenerate ==
    IsExpected(a) /\ Applied("generateRunner", Ret(StrV(CBlockType(parseExpectedValue(a)))))

EscapeJava == a \in Strings /\ Applied("escapeJava", Ret(StringV(escapeJava(a.v))))
EscapeCpp == a \in Strings /\ Applied("escapeCpp", Ret(StringV(escapeCpp(a.v))))
EscapeCSharp == a \in Strings /\ Applied("escapeCSharp", Ret(StringV(escapeCSharp(a.v))))
EscapeC == a \in Strings /\ Applied("escapeC", Ret(StringV(escapeC(a.v))))

(* The call of one test case as the Java and the C# generator embed it *)
JavaGenerate ==
    a \in Submissions /\ Applied("JavaGenerator", Ret(StringV(callCode(a.content, a.call))))
CsGenerate ==
    a \in Submissions /\ Applied("CSharpGenerator", Ret(StringV(callCode(a.content, a.call))))

(* The report of a run of the Java and of the C# runner *)
JavaReport == a \in ResultLists /\ Applied("main", Ret(StringV(main(a.v))))
CsReport == a \in ResultLists /\ Applied("Main", Ret(StringV(Main(a.v))))

NextFn ==
    \/ PyParse \/ TsParse \/ CParse \/ CppConvert \/ CGenerate
    \/ PySerialize \/ TsSerialize
    \/ EscapeJava \/ EscapeCpp \/ EscapeCSharp \/ EscapeC
    \/ JavaGenerate \/ CsGenerate
    \/ JavaReport \/ CsReport

SpecFn == InitFn /\ [][NextFn]_vars

---------------------------------------------------------------------------
(* Claims about the comparators, checked under SpecCmp *)

(* An Int faces a Float: at top level, or at the same position of two
   containers of the same kind and shape *)
(* The tagged containers of the Python runner and the untagged value inside *)
IsTagged(x) == x.k \in {"frozenset", "counter", "deque"}
Inner(x) ==
    IF x.k = "frozenset" THEN SetV(x.v)
    ELSE IF x.k = "counter" THEN DictV(x.v)
    ELSE ListV(x.v)

RECURSIVE IntFacesFloat(_, _)
IntFacesFloat(x, y) ==
    \/ x.k = "int" /\ y.k = "float"
    \/ x.k = "float" /\ y.k = "int"
    \/ /\ x.k = y.k /\ IsSeqKind(x) /\ Len(x.v) = Len(y.v)
       /\ \E i \in DOMAIN x.v : IntFacesFloat(x.v[i], y.v[i])
    \/ /\ x.k = "dict" /\ y.k = "dict" /\ Len(x.v) = Len(y.v)
       /\ \E i \in DOMAIN x.v : \E j \in DOMAIN y.v :
              x.v[i][1] = y.v[j][1] /\ IntFacesFloat(x.v[i][2], y.v[j][2])

(* C4: equals(Int(n), Float(x)) is false for every integer and float, also
   when they denote the same number, at top level and nested in a
   container (Python and Java comparators). *)
C4_IntNeverEqualsFloat ==
    (phase = "compared" /\ cmp \in {"python", "java"} /\ IntFacesFloat(a, b))
        => res = FALSE

(* C5: a Sequence is never equal to a Tuple, whichever side each is on
   (Python and C# comparators). *)
C5_SequenceNeverEqualsTuple ==
    (/\ phase = "compared" /\ cmp \in {"python", "csharp"}
     /\ \/ a.k = "list" /\ b.k = "tuple"
        \/ a.k = "tuple" /\ b.k = "list")
        => res = FALSE

(* The pairs of different variant kinds that C6 names *)
KindsDiffer(x, y) ==
    \/ x.k = "list" /\ y.k = "dict"
    \/ x.k = "str" /\ y.k \in {"int", "float", "bool"}
    \/ x.k = "bool" /\ y.k = "int"
    \/ x.k = "null" /\ y.k # "null"

(* C6: equals is false whenever its arguments are of different variant
   kinds: Sequence against Mapping, Str against Int, Float or Bool, Bool
   against Int, Null against non-Null (TypeScript and C# comparators). *)
C6_DifferentKindsUnequal ==
    (/\ phase = "compared" /\ cmp \in {"typescript", "csharp"}
     /\ (KindsDiffer(a, b) \/ KindsDiffer(b, a)))
        => res = FALSE

(* C7: for Floats, equals(NaN, NaN) is true and equals(NaN, x),
   equals(x, NaN) are false for every non-NaN float x. *)
C7_NaNEqualsOnlyNaN ==
    (/\ phase = "compared" /\ cmp \in {"python", "typescript", "java", "csharp"}
     /\ a.k = "float" /\ b.k = "float")
        => /\ (IsNaN(a) /\ IsNaN(b)) => res = TRUE
           /\ (IsNaN(a) # IsNaN(b)) => res = FALSE

C7_Witness ==
    /\ phase = "compared" /\ cmp = "java"
    /\ IsNaN(a) /\ b = Fin(Scale) /\ res = FALSE

(* C8: float comparison uses no tolerance: two non-NaN floats are equal
   only when they are the same value (C# comparator, C double branch). *)
C8_NoTolerance ==
    (/\ phase = "compared"
     /\ a.k = "float" /\ b.k = "float" /\ ~IsNaN(a) /\ ~IsNaN(b)
     /\ cmp = "csharp" \/ (cmp = "c" /\ ~NumberIsInteger(b))
     /\ res = TRUE)
        => a = b

(* The keys of a map as exact strings *)
StrKeys(m) == {JavaStringValueOf(m.v[i][1]) : i \in DOMAIN m.v}

(* C9: two Mappings are equal only if they have exactly the same set of
   keys, compared as exact strings; a key present on one side and absent
   on the other makes them unequal (Java and C# comparators). *)
C9_MappingsEqualOnlySameKeys ==
    (/\ phase = "compared" /\ cmp \in {"java", "csharp"}
     /\ a.k = "dict" /\ b.k = "dict" /\ res = TRUE)
        => StrKeys(a) = StrKeys(b)

(* C10: two Sets are equal iff they have the same cardinality and every
   member of one has a counterpart in the other that is equal under the
   comparator's own strict equals (Python comparator). *)
C10_SetsEqualIffStrictCounterparts ==
    (phase = "compared" /\ cmp = "python" /\ a.k = "set" /\ b.k = "set")
        => (res = TRUE <=>
              /\ Len(a.v) = Len(b.v)
              /\ \A i \in DOMAIN a.v : \E j \in DOMAIN b.v : deep_equals(a.v[i], b.v[j])
              /\ \A j \in DOMAIN b.v : \E i \in DOMAIN a.v : deep_equals(a.v[i], b.v[j]))

(* C11: two Tagged values (frozenset, Counter, deque) are equal iff their
   names are equal and their inner values are equal under the strict
   equals; a Tagged value never equals an untagged value (Python
   comparator). *)
C11_TaggedEqualIffNameAndInner ==
    (phase = "compared" /\ cmp = "python")
        => /\ (IsTagged(a) /\ IsTagged(b))
                  => (res = TRUE <=> (a.k = b.k /\ deep_equals(Inner(a), Inner(b))))
           /\ (IsTagged(a) # IsTagged(b)) => res = FALSE

---------------------------------------------------------------------------
(* Claims about the parsing functions, checked under SpecFn *)

(* A text of letters and spaces that is none of the keywords: no structured
   rule of the parser is written for it *)
PlainWords(cs) ==
    /\ \A i \in DOMAIN cs : cs[i] \in (WordChars \cup {" "}) \ (DigitChars \cup {"_"})
    /\ Join(Strip(cs)) \notin {"true", "false", "null", "True", "False", "None",
                               "undefined", "NaN", "Infinity"}

(* C12: parse is total: for every input text it returns a value and never
   raises; when no structured rule matches, the result is the original
   text as a Str, unchanged, including its surrounding whitespace (Python
   parse_expected_value). *)
C12_ParseTotalFallbackVerbatim ==
    (phase = "applied" /\ cmp = "parse_expected_value" /\ a.k = "text")
        => /\ b.t = "ret"
           /\ PlainWords(a.v) => b.val = StrV(Join(a.v))

(* C13: strict JSON comes first: an expected text that is valid JSON (array,
   object, number, quoted string, true/false/null) is parsed as that JSON
   value, an object to a Mapping and an array to a Sequence, before any
   keyword, constructor or delimiter-rewriting rule (convertCppToJson and
   the C generator's parseExpectedValue). *)
C13_ValidJsonParsedAsJson ==
    (/\ phase = "applied" /\ cmp \in {"convertCppToJson", "parseExpectedValue"}
     /\ a.k = "text" /\ Literal(Strip(a.v), "js").ok)
        => b.val = Literal(Strip(a.v), "js").val

(* The value the specification fixes for each literal keyword *)
KeywordValue(w) ==
    CASE w = "true" -> BoolV(TRUE)
      [] w = "false" -> BoolV(FALSE)
      [] w \in {"null", "None", "undefined"} -> NullV
      [] w = "NaN" -> NaN
      [] w = "Infinity" -> PosInf
      [] w = "-Infinity" -> NegInf

(* The parsed value against the specified one, under the comparator of the
   runner the parser belongs to; the C generator compares no parsed
   keyword at all, there the values themselves are set side by side *)
KeywordAgrees(parser, got, want) ==
    IF parser = "parse_expected_value" THEN deep_equals(got, want)
    ELSE IF parser = "__parseExpected__" THEN __deepEquals__(got, want)
    ELSE got = want

(* C14: the literal keywords parse to fixed values: true/false to Bool,
   null, None and undefined to Null, NaN to Float(NaN), Infinity to
   Float(+inf), -Infinity to Float(-inf); parse("undefined") is equal to
   Null under the comparator (Python, TypeScript and C parsers). *)
C14_KeywordsParseToFixedValues ==
    (/\ phase = "applied"
     /\ cmp \in {"parse_expected_value", "__parseExpected__", "parseExpectedValue"}
     /\ a.k = "text"
     /\ Join(Strip(a.v)) \in {"true", "false", "null", "None", "undefined",
                              "NaN", "Infinity", "-Infinity"})
        => /\ b.t = "ret"
           /\ KeywordAgrees(cmp, b.val, KeywordValue(Join(Strip(a.v))))

(* The well-known containers of the constructor form, and the kind of the
   value tagged with each *)
ContainerNames ==
    {<<"f", "r", "o", "z", "e", "n", "s", "e", "t">>,
     <<"C", "o", "u", "n", "t", "e", "r">>,
     <<"O", "r", "d", "e", "r", "e", "d", "D", "i", "c", "t">>,
     <<"d", "e", "q", "u", "e">>,
     <<"d", "e", "f", "a", "u", "l", "t", "d", "i", "c", "t">>}
TagOf(name) ==
    CASE Join(name) = "frozenset" -> "frozenset"
      [] Join(name) = "Counter" -> "counter"
      [] Join(name) = "OrderedDict" -> "ordereddict"
      [] Join(name) = "deque" -> "deque"
      [] Join(name) = "defaultdict" -> "defaultdict"

(* cs is Name(arg) for the container Name *)
IsCallOf(name, cs) ==
    /\ Len(cs) >= Len(name) + 2
    /\ SubSeq(cs, 1, Len(name) + 1) = name \o <<"(">>
    /\ cs[Len(cs)] = ")"
CallArg(name, cs) == SubSeq(cs, Len(name) + 2, Len(cs) - 1)

(* The argument is nothing, a {...} literal or a [...] literal *)
ArgIsLiteral(arg) ==
    \/ arg = <<>>
    \/ /\ Bracketed(arg)
       /\ Literal(arg, "lit").ok

(* C15: expected text in the constructor form Name(...), Name({...}) or
   Name([...]) for a well-known container (frozenset, Counter, OrderedDict,
   deque, defaultdict) parses to a value tagged with that Name whose inner
   literal is parsed recursively; frozenset({1,2}) parses to a frozenset
   of 1 and 2 that is unequal to the untagged set {1,2} (Python
   parse_expected_value). *)
C15_ConstructorFormsParseToTagged ==
    (phase = "applied" /\ cmp = "parse_expected_value" /\ a.k = "text")
        => \A name \in ContainerNames :
              (IsCallOf(name, Strip(a.v)) /\ ArgIsLiteral(CallArg(name, Strip(a.v))))
                  => /\ b.t = "ret"
                     /\ b.val.k = TagOf(name)
                     /\ (TagOf(name) \in {"frozenset", "deque"}
                         /\ CallArg(name, Strip(a.v)) # <<>>)
                            => b.val.v = Literal(CallArg(name, Strip(a.v)), "lit").val.v
                     /\ TagOf(name) = "frozenset"
                            => ~deep_equals(b.val, SetV(b.val.v))

(* The positions of cs that lie inside a double-quoted string literal, its
   quotes included: a literal runs from a quote to the next quote that no
   backslash of the literal escapes *)
InsideString(cs) ==
    LET RECURSIVE scan(_, _, _)
        scan(i, open, escaped) ==
            IF i > Len(cs) THEN {}
            ELSE IF open
            THEN {i} \cup (IF escaped THEN scan(i + 1, TRUE, FALSE)
                           ELSE IF cs[i] = "\\" THEN scan(i + 1, TRUE, TRUE)
                           ELSE IF cs[i] = "\"" THEN scan(i + 1, FALSE, FALSE)
                           ELSE scan(i + 1, TRUE, FALSE))
            ELSE IF cs[i] = "\"" THEN {i} \cup scan(i + 1, TRUE, FALSE)
            ELSE scan(i + 1, FALSE, FALSE)
    IN  scan(1, FALSE, FALSE)

(* Every brace outside the string literals replaced, every other character
   kept *)
BracesToBrackets(cs) ==
    [i \in DOMAIN cs |->
        IF i \in InsideString(cs) THEN cs[i]
        ELSE IF cs[i] = "{" THEN "["
        ELSE IF cs[i] = "}" THEN "]"
        ELSE cs[i]]

(* C16: convertCppToJson replaces every brace outside string literals by
   the square bracket and leaves every character inside a double-quoted
   string, braces and escaped quotes included, unchanged; the result is the
   rewritten text read as JSON; if the rewritten text is not valid JSON, or
   the input is not a string or is not wrapped in braces, the original value
   is returned unchanged. *)
C16_BracesRewrittenOutsideStrings ==
    (phase = "applied" /\ cmp = "convertCppToJson")
        => b.val =
             IF a.k # "text" THEN a
             ELSE IF Strip(a.v) = <<>> \/ Head(Strip(a.v)) # "{"
                     \/ Strip(a.v)[Len(Strip(a.v))] # "}"
             THEN StrV(Join(a.v))
             ELSE IF Literal(BracesToBrackets(Strip(a.v)), "js").ok
             THEN Literal(BracesToBrackets(Strip(a.v)), "js").val
             ELSE StrV(Join(a.v))

(* C16 witness: the text {"{"} has been converted to the array of the one
   string { *)
C16_Witness ==
    /\ phase = "applied" /\ cmp = "convertCppToJson"
    /\ a = TextV(<<"{", "\"", "{", "\"", "}">>)
    /\ b = Ret(ListV(<<StrV("{")>>))

(* The plain integer pattern, and the plain decimal pattern: digits with a
   decimal point *)
PlainInteger(cs) == Decimal(cs).ok /\ ~Decimal(cs).dot /\ Decimal(cs).whole > 0
PlainDecimal(cs) ==
    Decimal(cs).ok /\ Decimal(cs).dot /\ Decimal(cs).whole > 0 /\ Decimal(cs).frac > 0

(* C17: expected text matching the plain integer pattern parses to an Int
   and text matching the plain decimal pattern, such as 3.0, parses to a
   Float, and the kind chosen is the kind used for the comparison: an
   expected 3.0 is compared as a Float and never as an Int (Python parser,
   C generator). *)
C17_NumberPatternKinds ==
    (phase = "applied" /\ a.k = "text")
        => /\ cmp = "parse_expected_value"
                => /\ PlainInteger(Strip(a.v)) => (b.t = "ret" /\ b.val.k = "int")
                   /\ PlainDecimal(Strip(a.v)) => (b.t = "ret" /\ b.val.k = "float")
           /\ cmp = "generateRunner"
                => /\ PlainInteger(Strip(a.v)) => b.val = StrV("int")
                   /\ PlainDecimal(Strip(a.v)) => b.val = StrV("double")

---------------------------------------------------------------------------
(* Claims about serialization, checked under SpecFn *)

(* A marker object of type t *)
IsMarker(w, t) ==
    w.k = "dict" /\ Len(w.v) = 2 /\ w.v[1] = <<StrV("__type__"), StrV(t)>>
    /\ w.v[2][1] = StrV("value")

(* C18: serialize is lossless: two different values that are unequal under
   equals never serialize to the same wire value; a Mapping is always emitted
   inside the dict wrapper and never as a bare JSON object, and a non-finite
   Float as a sentinel string inside the float wrapper (Python serialize,
   TypeScript __serialize__; the absent value undefined is left out). *)
C18_SerializeLossless ==
    (phase = "applied" /\ cmp \in {"serialize", "__serialize__"} /\ a.k # "undef")
        => /\ cmp = "serialize"
                => \A y \in PySerializable \ {a} :
                      ~deep_equals(a, y) => serialize(y) # b.val
           /\ cmp = "__serialize__"
                => \A y \in TsSerializable \ {a, Undefined} :
                      ~__deepEquals__(a, y) => __serialize__(y) # b.val
           /\ a.k = "dict" => IsMarker(b.val, "dict")
           /\ (a.k = "float" /\ a.c # "fin")
                => (IsMarker(b.val, "float") /\ b.val.v[2][2].k = "str")

(* C19: round-trip law: for every value x of every kind, converting
   serialize(x) back with convert yields a value equal to x under equals
   (Python serialize, convert_expected and deep_equals). *)
C19_RoundTrip ==
    (phase = "applied" /\ cmp = "serialize")
        => deep_equals(convert_expected(b.val), a)

(* C20: the wire form of a Set is deterministic: two Sets with the same
   members, iterated in any order, serialize to the identical wire value
   (Python serialize). *)
C20_SetWireDeterministic ==
    (phase = "applied" /\ cmp = "serialize" /\ a.k \in {"set", "frozenset"})
        => \A y \in PySerializable :
              (/\ y.k = a.k /\ Len(y.v) = Len(a.v)
               /\ \A i \in DOMAIN a.v : \E j \in DOMAIN y.v : y.v[j] = a.v[i]
               /\ \A j \in DOMAIN y.v : \E i \in DOMAIN a.v : y.v[j] = a.v[i])
                  => serialize(y) = b.val

---------------------------------------------------------------------------
(* More claims about the batch runs, checked under Spec *)

(* C22: when the actual value has a shape that cannot be mapped into the
   canonical value model (an opaque object), the record of the test case
   carries an error string and passed = false (Python runner). *)
C22_UnmappableValueIsError ==
    lang = "python"
        => \A i \in DOMAIN results :
              (tests[i].call.t = "ret" /\ tests[i].call.val.k = "object")
                  => /\ results[i].error # NullV
                     /\ results[i].passed = FALSE

---------------------------------------------------------------------------
(* Claims about the comparators as relations, checked under SpecCmp *)

(* C26: the deep-equality comparator is symmetric: for all values a and b a
   runner can compare, equals(a, b) = equals(b, a) (Java, C# and TypeScript
   comparators). *)
C26_ComparatorSymmetric ==
    /\ (phase = "compared" /\ cmp = "java") => res = deepEquals(b, a)
    /\ (phase = "compared" /\ cmp = "csharp") => res = DeepEquals(b, a)
    /\ (phase = "compared" /\ cmp = "typescript") => res = __deepEquals__(b, a)

(* C27: the comparator is reflexive on structure: a value compared with a
   separately built value of identical structure and content is equal to
   it, also when it holds NaN at any depth (Python and TypeScript
   comparators). *)
C27_ComparatorReflexive ==
    (phase = "compared" /\ cmp \in {"python", "typescript"} /\ a = b)
        => res = TRUE

---------------------------------------------------------------------------
(* Claims about the generators, checked under SpecFn *)

(* The body of a string literal of Java, C++, C# or C read back: the string
   it denotes, or not ok when it holds a double quote that no backslash
   escapes, a raw line break, or a backslash that starts none of the
   escapes \\ \" \n \r \t *)
RECURSIVE Unescaped(_, _)
Unescaped(body, acc) ==
    IF body = <<>> THEN [ok |-> TRUE, str |-> acc]
    ELSE IF Head(body) \in {"\"", "\n", "\r"} THEN [ok |-> FALSE]
    ELSE IF Head(body) # "\\" THEN Unescaped(Tail(body), Append(acc, Head(body)))
    ELSE IF Len(body) = 1 \/ body[2] \notin {"\\", "\"", "n", "r", "t"} THEN [ok |-> FALSE]
    ELSE Unescaped(SubSeq(body, 3, Len(body)),
                   Append(acc, CASE body[2] = "n" -> "\n" [] body[2] = "r" -> "\r"
                                 [] body[2] = "t" -> "\t" [] OTHER -> body[2]))

(* C28: for every string s over backslash, double quote, newline, carriage
   return, tab and ordinary characters, the text that escapeJava, escapeCpp,
   escapeCSharp or escapeC produces holds no unescaped double quote and no
   raw line break, and read as a string literal of the target language it
   denotes exactly s. *)
C28_EscapeFaithful ==
    (phase = "applied" /\ cmp \in {"escapeJava", "escapeCpp", "escapeCSharp", "escapeC"})
        => /\ Unescaped(b.val.v, <<>>).ok
           /\ Unescaped(b.val.v, <<>>).str = a.v

(* C28: a string with a backslash before a quote and a line break has been
   escaped by escapeJava *)
C28_Witness ==
    /\ phase = "applied" /\ cmp = "escapeJava"
    /\ a = StringV(<<"\\", "\"", "\n">>)
    /\ b = Ret(StringV(<<"\\", "\\", "\\", "\"", "\\", "n">>))

(* The classes a text of user code declares, in order: the name after each
   word class that stands outside the comments *)
DeclaredClasses(content) ==
    LET n == Len(content)
        At(i) == IF i \in 1..n THEN content[i] ELSE ""
        RECURSIVE spaces(_), word(_), closing(_), scan(_)
        spaces(i) == IF At(i) \in {" ", "\n", "\t", "\r"} THEN spaces(i + 1) ELSE i
        word(i) == IF At(i) \in WordChars THEN word(i + 1) ELSE i
        closing(i) ==
            IF i > n THEN i
            ELSE IF At(i) = "*" /\ At(i + 1) = "/" THEN i + 2
            ELSE closing(i + 1)
        scan(i) ==
            IF i > n THEN <<>>
            ELSE IF At(i) = "/" /\ At(i + 1) = "*" THEN scan(closing(i + 2))
            ELSE IF /\ i + 4 <= n
                    /\ SubSeq(content, i, i + 4) = <<"c", "l", "a", "s", "s">>
                    /\ At(i - 1) \notin WordChars
                    /\ spaces(i + 5) > i + 5
                    /\ word(spaces(i + 5)) > spaces(i + 5)
            THEN <<SubSeq(content, spaces(i + 5), word(spaces(i + 5)) - 1)>>
                     \o scan(word(spaces(i + 5)))
            ELSE scan(i + 1)
    IN  scan(1)

(* The call starts with the name of a class and a dot: a class the user
   code declares, or a capitalised name *)
StartsWithClass(call, content) ==
    \/ hasClassPrefix(call)
    \/ \E i \in DOMAIN DeclaredClasses(content) :
          LET name == DeclaredClasses(content)[i]
          IN  /\ Len(call) > Len(name)
              /\ SubSeq(call, 1, Len(name) + 1) = name \o <<".">>

(* C23: in the Java and C# generators a call with no class prefix is
   embedded with the user's primary class prepended (the class named
   Solution if the user code declares one, otherwise the first class
   declared), a call that starts with a class prefix is embedded unchanged,
   and so is every call when the user code declares no class. *)
C23_PrimaryClassPrepended ==
    (phase = "applied" /\ cmp \in {"JavaGenerator", "CSharpGenerator"})
        => LET declared == DeclaredClasses(a.content)
               Solution == <<"S", "o", "l", "u", "t", "i", "o", "n">>
               primary == IF \E i \in DOMAIN declared : declared[i] = Solution
                          THEN Solution ELSE declared[1]
           IN  b.val.v = IF declared = <<>> \/ StartsWithClass(a.call, a.content)
                         THEN a.call
                         ELSE primary \o <<".">> \o a.call

(* A text is one JSON array of as many records as there are results, each
   an object of the four members index, actual, passed and error *)
WellFormedReport(text, list) ==
    LET r == Literal(text, "js")
    IN  /\ r.ok
        /\ r.val.k \in {"list", "array"}
        /\ Len(r.val.v) = Len(list)
        /\ \A i \in DOMAIN r.val.v :
              /\ r.val.v[i].k = "dict"
              /\ Len(r.val.v[i].v) = 4
              /\ {r.val.v[i].v[j][1] : j \in DOMAIN r.val.v[i].v}
                     = {StrV("index"), StrV("actual"), StrV("passed"), StrV("error")}

(* C21: the report that the Java and the C# runner print is one well-formed
   JSON array of records {index, actual, passed, error}, for every number
   of results and for every actual value and error message, those with
   quotes, backslashes, line breaks or other control characters
   included. *)
C21_ReportWellFormed ==
    (phase = "applied" /\ cmp \in {"main", "Main"}) => WellFormedReport(b.val.v, a.v)

---------------------------------------------------------------------------
(* Stepwise runs of the Python and of the TypeScript runner: the runner
   script statement by statement.  pc is the statement the runner is at:
   "capture", "load", "read", then in the loop "evaluate", "parse",
   "compare", "serialize", "append" or "except", after it "restore" and
   "write", and "done" or "aborted" when the process has ended.  Inside the
   loop a is the actual value, b the expected value and res the verdict;
   the serialize step replaces a and b by their serialized forms. *)

LoopSteps == <<"evaluate", "parse", "compare", "serialize", "append">>

(* The statement that follows a statement of the try block when it
   completes; a statement that raises goes to the handler *)
FollowingCompareFirst(step) ==
    IF step = "evaluate" THEN "compare"
    ELSE IF step = "compare" THEN "parse"
    ELSE IF step = "parse" THEN "serialize"
    ELSE "append"

Following(step) ==
    IF step = "evaluate" THEN "parse"
    ELSE IF step = "parse" THEN "compare"
    ELSE IF step = "compare" THEN "serialize"
    ELSE "append"

(* The runner moves to statement next; the process ends at "done" and
   "aborted" *)
Goto(next) ==
    /\ pc' = next
    /\ run' = IF next \in {"done", "aborted"} THEN next ELSE run

(* A statement outside the loop *)
Outside(next) ==
    /\ Goto(next)
    /\ UNCHANGED <<lang, tests, idx, results, trace>>
    /\ UNCHANGED cmpVars

(* A statement of the loop body at index idx *)
Inside(step, next) ==
    /\ pc = step
    /\ trace' = Append(trace, [step |-> step, index |-> idx])
    /\ Goto(next)
    /\ UNCHANGED <<lang, tests, report, stdout, written, phase, cmp>>

(* The record of index idx is appended; the loop takes the next index or
   ends *)
Recorded(record, after) ==
    /\ trace' = Append(trace, [step |-> "append", index |-> idx])
    /\ results' = Append(results, record)
    /\ idx' = idx + 1
    /\ Goto(IF idx + 1 < Len(tests) THEN "evaluate" ELSE after)
    /\ UNCHANGED <<lang, tests, report, stdout, written>>
    /\ UNCHANGED cmpVars

PyStepLists ==
    TestLists({Ret(IntV(1)), Raise("ZeroDivisionError", "division by zero"),
               Raise("SystemExit", "1")},
              {IntV(1), TextV(<<"{", "[", "1", "]", "}">>)})

TsStepLists ==
    TestLists({Ret(Fin(Scale)), Throw(ErrorObject("RangeError", "too deep")), Throw(NullV)},
              {DictV(<<>>), TextV(<<"1">>)})

InitSteps ==
    /\ CmpOff
    /\ Start("python", PyStepLists) \/ Start("typescript", TsStepLists)
    /\ pc = "capture"
    /\ trace = <<>>
    /\ stdout = "original"
    /\ written = "none"

(* sys.stdout = __captured_output__ *)
PyCaptureStdout ==
    /\ lang = "python" /\ pc = "capture"
    /\ stdout' = "captured"
    /\ Outside("load")
    /\ UNCHANGED <<report, written>>

(* from module import *: the submission loads, or raises while it loads *)
PyImportModule ==
    /\ lang = "python" /\ pc = "load"
    /\ \E loads \in BOOLEAN : Outside(IF loads THEN "read" ELSE "aborted")
    /\ UNCHANGED <<report, stdout, written>>

(* test_cases = json.loads(sys.stdin.read()): the input is the JSON text of
   the test cases, or json.loads raises *)
PyReadTestCases ==
    /\ lang = "python" /\ pc = "read"
    /\ \E json \in BOOLEAN :
          Outside(IF ~json THEN "aborted"
                  ELSE IF Len(tests) = 0 THEN "restore" ELSE "evaluate")
    /\ UNCHANGED <<report, stdout, written>>

(* actual = eval(tc['call']) *)
PyLoopEval ==
    /\ lang = "python"
    /\ LET call == tests[idx + 1].call
       IN  /\ Inside("evaluate", IF call.t = "ret" THEN Following("evaluate")
                                 ELSE IF PyCaught(call.kind) THEN "except"
                                 ELSE "aborted")
           /\ a' = IF call.t = "ret" THEN call.val ELSE a
    /\ UNCHANGED <<b, res, idx, results>>

(* expected = parse_expected_value(tc['expected']) *)
PyLoopParse ==
    /\ lang = "python"
    /\ LET expected == parse_expected_value(tests[idx + 1].expected)
       IN  /\ Inside("parse", IF expected.t = "ret" THEN Following("parse") ELSE "except")
           /\ b' = IF expected.t = "ret" THEN expected.val ELSE b
    /\ UNCHANGED <<a, res, idx, results>>

(* passed = deep_equals(actual, expected) *)
PyLoopCompare ==
    /\ lang = "python"
    /\ Inside("compare", Following("compare"))
    /\ res' = deep_equals(a, b)
    /\ UNCHANGED <<a, b, idx, results>>

(* serialize(actual), serialize(expected) *)
PyLoopSerialize ==
    /\ lang = "python"
    /\ Inside("serialize", Following("serialize"))
    /\ a' = serialize(a)
    /\ b' = serialize(b)
    /\ UNCHANGED <<res, idx, results>>

(* results.append({...}) in the try block *)
PyLoopAppend ==
    /\ lang = "python" /\ pc = "append"
    /\ Recorded([index |-> idx, actual |-> a, expected_serialized |-> b,
                 passed |-> res, error |-> NullV], "restore")

(* except Exception as e: results.append({...}) *)
PyLoopExcept ==
    /\ lang = "python" /\ pc = "except"
    /\ LET call == tests[idx + 1].call
           e == IF call.t = "ret" THEN parse_expected_value(tests[idx + 1].expected)
                ELSE call
       IN  Recorded(PyError(idx, e.kind, e.msg), "restore")

(* sys.stdout = __original_stdout__ *)
PyRestoreStdout ==
    /\ lang = "python" /\ pc = "restore"
    /\ stdout' = "original"
    /\ Outside("write")
    /\ UNCHANGED <<report, written>>

(* sys.stdout.write(json.dumps(results)) *)
PyWriteReport ==
    /\ lang = "python" /\ pc = "write"
    /\ report' = results
    /\ written' = stdout
    /\ Outside("done")
    /\ UNCHANGED stdout

(* console.log = ..., console.warn = ..., console.error = ... *)
TsCaptureConsole ==
    /\ lang = "typescript" /\ pc = "capture"
    /\ stdout' = "captured"
    /\ Outside("load")
    /\ UNCHANGED <<report, written>>

(* The user code, inlined after the capture: its top level runs to the end,
   or throws *)
TsUserCode ==
    /\ lang = "typescript" /\ pc = "load"
    /\ \E loads \in BOOLEAN :
          Outside(IF ~loads THEN "aborted"
                  ELSE IF Len(tests) = 0 THEN "write" ELSE "evaluate")
    /\ UNCHANGED <<report, stdout, written>>

(* const actual = eval(tc.call) *)
TsLoopEval ==
    /\ lang = "typescript"
    /\ LET call == tests[idx + 1].call
       IN  /\ Inside("evaluate", IF call.t = "ret" THEN Following("evaluate") ELSE "except")
           /\ a' = IF call.t = "ret" THEN call.val ELSE a
    /\ UNCHANGED <<b, res, idx, results>>

(* const expected = __parseExpected__(tc.expected) *)
TsLoopParse ==
    /\ lang = "typescript"
    /\ Inside("parse", Following("parse"))
    /\ b' = __parseExpected__(tests[idx + 1].expected)
    /\ UNCHANGED <<a, res, idx, results>>

(* const passed = __deepEquals__(actual, expected) *)
TsLoopCompare ==
    /\ lang = "typescript"
    /\ Inside("compare", Following("compare"))
    /\ res' = __deepEquals__(a, b)
    /\ UNCHANGED <<a, b, idx, results>>

(* __serialize__(actual), __serialize__(expected) *)
TsLoopSerialize ==
    /\ lang = "typescript"
    /\ Inside("serialize", Following("serialize"))
    /\ a' = __serialize__(a)
    /\ b' = __serialize__(b)
    /\ UNCHANGED <<res, idx, results>>

(* __results__.push({...}) in the try block *)
TsLoopPush ==
    /\ lang = "typescript" /\ pc = "append"
    /\ Recorded([index |-> idx, actual |-> a, expected_serialized |-> b,
                 passed |-> res, error |-> NullV], "write")

(* catch (e: any): __results__.push({...}); reading e.name off null or
   undefined throws out of the handler *)
TsLoopCatch ==
    /\ lang = "typescript" /\ pc = "except"
    /\ LET e == tests[idx + 1].call.val
       IN  IF TsHandlerThrows(e)
           THEN /\ Outside("aborted")
                /\ UNCHANGED <<report, stdout, written>>
           ELSE Recorded(TsError(idx, e), "write")

(* process.stdout.write(JSON.stringify(__results__)); console.log, warn and
   error keep the capturing functions *)
TsWriteReport ==
    /\ lang = "typescript" /\ pc = "write"
    /\ report' = results
    /\ written' = "original"
    /\ Outside("done")
    /\ UNCHANGED stdout

NextSteps ==
    \/ PyCaptureStdout \/ PyImportModule \/ PyReadTestCases
    \/ PyLoopEval \/ PyLoopParse \/ PyLoopCompare \/ PyLoopSerialize
    \/ PyLoopAppend \/ PyLoopExcept
    \/ PyRestoreStdout \/ PyWriteReport
    \/ TsCaptureConsole \/ TsUserCode
    \/ TsLoopEval \/ TsLoopParse \/ TsLoopCompare \/ TsLoopSerialize
    \/ TsLoopPush \/ TsLoopCatch
    \/ TsWriteReport

SpecSteps == InitSteps /\ [][NextSteps]_vars

---------------------------------------------------------------------------
(* Claims about the stepwise runs, checked under SpecSteps *)

(* The place of a step in the order evaluate, parse expected, compare,
   serialize, append record *)
Rank(step) == CHOOSE r \in DOMAIN LoopSteps : LoopSteps[r] = step

(* C24: the batch runner is strictly sequential with no retry: the call of
   an index is evaluated at most once, and exactly once when its record has
   been appended; the steps taken go by index and, within an index, in the
   order evaluate, parse expected, compare, serialize, append record; the
   evaluation of index i+1 comes after the record of index i has been
   appended; and the records are in index order. *)
C24_StrictlySequential ==
    pc # "off" =>
        /\ \A k \in 0..(Len(tests) - 1) :
              LET evals == {i \in DOMAIN trace :
                               trace[i].step = "evaluate" /\ trace[i].index = k}
              IN  /\ Cardinality(evals) <= 1
                  /\ k < Len(results) => Cardinality(evals) = 1
        /\ \A i, j \in DOMAIN trace :
              i < j => \/ trace[i].index < trace[j].index
                       \/ /\ trace[i].index = trace[j].index
                          /\ Rank(trace[i].step) < Rank(trace[j].step)
        /\ \A j \in DOMAIN trace :
              (trace[j].step = "evaluate" /\ trace[j].index > 0)
                  => \E i \in 1..(j - 1) :
                        trace[i] = [step |-> "append", index |-> trace[j].index - 1]
        /\ \A k \in DOMAIN results : results[k].index = k - 1

(* C24: a run has ended after a call that returned, whose five steps were
   taken, and a call that raised, whose record the handler appended *)
C24_Witness ==
    /\ pc = "done"
    /\ Len(results) >= 2
    /\ results[1].error = NullV
    /\ results[2].error # NullV
    /\ [i \in 1..5 |-> trace[i].step] = LoopSteps
    /\ trace[6] = [step |-> "evaluate", index |-> 1]

(* C25: the redirection of the output of user code is undone on every exit
   path: when the run has ended the output stream is the original one, and
   a report that was written went to the original stream. *)
C25_StreamRestored ==
    pc \in {"done", "aborted"}
        => /\ stdout = "original"
           /\ pc = "done" => written = "original"

====
